---- MODULE Spec2Model ----
(***************************************************************************)
(* Model of the scan pipeline of oopsie-daisy.                             *)
(*                                                                         *)
(*  - scan session: AdvancedRecoveryEngine.scan_drive run by a             *)
(*    RecoveryWizardThread, with cancel_scan()/stop() racing against it    *)
(*    (advanced_recovery.py, recovery_wizard.py);                          *)
(*  - parallel coordinator: AcceleratedFileScanner.scan_locations_parallel *)
(*    and its re-ranking pass (accelerated_scanner.py).                    *)
(*                                                                         *)
(* File lists are kept as sequences of runs: a run stands for n            *)
(* consecutive entries that one unit produced with one score.  A stable    *)
(* sort of the runs by score is the run form of the stable sort of the     *)
(* entries, so order, scores and counts are kept exactly.                  *)
(* Scores are in thousandths (0.5 is 500).                                 *)
(***************************************************************************)
EXTENDS Integers, Sequences, FiniteSets, TLC

VARIABLES
    \* ---- scan session (engine + wizard thread)
    mode,             \* RecoveryMode of the session
    pc,               \* position of RecoveryWizardThread.run / scan_drive
    i,                \* loop index of the location loop (0-based, as enumerate)
    total_paths,      \* len(scan_paths) of the raw scan
    cancel_requested, \* engine._cancel_requested (threading.Event)
    should_stop,      \* thread._should_stop
    stop_pc,          \* position inside RecoveryWizardThread.stop
    recovered_files,  \* list accumulated by the running scan
    deleted_files,    \* list accumulated by _scan_permanently_deleted_files
    returned,         \* value scan_drive returned to run (empty before)
    files_found,      \* files_found signal emitted
    delivered,        \* payload of files_found (empty if not emitted)
    scan_completed,   \* scan_completed signal emitted
    progress_calls,   \* values passed to progress_callback, in order
    progress_emitted, \* values emitted through progress_updated, in order
    produced,         \* runs produced by location units, in order (history)
    units_done,       \* location units completed so far (history)
    dispatched,       \* units and later phases begun so far (history)
    cancel_point,     \* where the cancel call took effect (history)
    \* ---- parallel coordinator (scan_locations_parallel)
    locations,        \* the locations passed in: [exists, content] each
    cpu_count,        \* multiprocessing.cpu_count()
    use_gpu,          \* scanner.use_gpu
    ppc,              \* position of scan_locations_parallel
    sub,              \* next location the submit comprehension looks at
    fut,              \* state of each location's future
    cidx,             \* next location whose future the collector waits on
    outcome,          \* what the collector got from each future
    all_files,        \* all_files
    completed_locations, \* completed_locations
    done_order,       \* locations in the order their tasks finished (history)
    rerank,           \* which post-processing ran (history)
    \* ---- scoring of one directory entry (_process_file_batch)
    filename,         \* entry.name, as a sequence of characters
    age_seconds,      \* time.time() - stat_result.st_mtime, in whole seconds
    file_score,       \* file_info['score'], in thousandths
    score_pc,         \* position of the entry in the scoring pipeline
    \* ---- signature lookup (_find_signatures_in_chunk, _identify_file_signature)
    chunk,            \* the bytes looked at: a chunk, or the start of a file
    offset,           \* offset of the chunk in its source
    found_files,      \* list _find_signatures_in_chunk returned
    identified,       \* entry _identify_file_signature returned (0 for None)
    sig_done,         \* which of the two lookups have run
    \* ---- directory walks (_scan_directory_optimized, _with_signatures)
    tree,             \* the directory tree under the walk's root
    walk_kind,        \* which walk ran ("none" before)
    walk_files,       \* list the walk returned
    \* ---- recovery batch (FileRecoveryThread.run, restore_selected_files)
    recovery_engine,  \* "advanced": run + recover_file; "basic": app + restore_file
    selected_files,   \* self.files / selected_items
    dest_dir,         \* the files of the destination directory
    recovery_i,       \* files the loop is past (the i of enumerate)
    successful,       \* successful / restored_count
    failed,           \* failed (run only)
    recovery_should_stop, \* FileRecoveryThread._should_stop
    recovery_pc,      \* position of the batch
    last_call,        \* what the latest recover_file / restore_file did (history)
    \* ---- construction of the scanner (AcceleratedFileScanner.__init__)
    machine_cores,    \* what multiprocessing.cpu_count() returns
    opencl_available, \* OPENCL_AVAILABLE
    init_gpu_ok,      \* what _init_gpu() returns
    scanner,          \* the scanner's cpu_count, use_gpu and max_threads
    init_pc,          \* whether the scanner is constructed
    \* ---- a batch of directory entries (_process_file_batch)
    file_entries,     \* the entries passed in
    batch_files,      \* the list _process_file_batch returns
    batch_pc,         \* whether the batch has been processed
    \* ---- the re-ranking pass called on a list (_gpu_filter_files)
    filter_files,     \* the list passed in
    filter_use_gpu,   \* scanner.use_gpu
    kernel_ok,        \* whether the OpenCL kernel builds and runs
    filter_result,    \* the list returned
    filter_pc,        \* whether the call has returned
    \* ---- main window (OopsieDaisyMainWindow and its scan threads)
    threads,          \* the scan threads started so far: kind and phase of run()
    recovery_thread,  \* self.recovery_thread (index into threads, 0 for None)
    event_queue,      \* signals emitted by the threads, not yet delivered
    window_found_files, \* self.found_files
    files_list,       \* items of the files_list widget
    scan_button,      \* scan_button.isEnabled()
    folder_scan_button, \* folder_scan_button.isEnabled()
    restore_button,   \* restore_button.isEnabled()
    progress_bar,     \* visibility and value of the progress bar
    status_label,     \* text of the status label
    dialogs_opened,   \* times the folder dialog was opened (history)
    last_slot,        \* the slot that ran last (history)
    \* ---- deep scan of a folder (scan_folder_deep)
    folder_tree,      \* the directory tree under the scanned folder
    slow_location,    \* the directory whose scan times out (0 for none)
    all_locations,    \* all_locations
    folder_result,    \* the list scan_folder_deep returns
    folder_pc,        \* whether the call has returned
    \* ---- signature scan of a long chunk (_find_signatures_in_chunk)
    long_chunk,       \* the chunk: head, length of the run of filler, tail
    long_offset,      \* offset of the chunk in its source
    long_found,       \* list _find_signatures_in_chunk returned
    long_pc,          \* whether the call has returned
    \* ---- recovery wizard (RecoveryWizard, RecoveryWizardThread)
    wizard_threads,   \* every RecoveryWizardThread started: phase of run(), _should_stop
    wizard_thread,    \* RecoveryWizard.recovery_thread: index of the latest thread, 0 for None
    engine_cancel,    \* the cancel request of the engine (engine.cancel_scan)
    wizard_queue,     \* signals queued to the main thread
    current_step,     \* RecoveryWizard.current_step
    wizard_main,      \* position of the main thread inside cancel_scan
    scanning_shown,   \* progress_widget is in its scanning state
    results_shown,    \* scan whose files results_widget shows, 0 for none
    cancelled_scans,  \* scans whose cancel_scan has returned
    late_completions  \* runs of on_scan_completed for a scan in cancelled_scans

\* the session's variables, but for progress_calls, which both scans use
scanOnly == <<mode, pc, i, total_paths, cancel_requested, should_stop, stop_pc,
              recovered_files, deleted_files, returned, files_found, delivered,
              scan_completed, progress_emitted, produced, units_done,
              dispatched, cancel_point>>

parVars == <<locations, cpu_count, use_gpu, ppc, sub, fut, cidx, outcome,
             all_files, completed_locations, done_order, rerank>>

scoreVars == <<filename, age_seconds, file_score, score_pc>>

\* the variables of the components other than the two scans
sigVars == <<chunk, offset, found_files, identified, sig_done>>

walkVars == <<tree, walk_kind, walk_files>>

recVars == <<recovery_engine, selected_files, dest_dir, recovery_i, successful,
             failed, recovery_should_stop, recovery_pc, last_call>>

initVars == <<machine_cores, opencl_available, init_gpu_ok, scanner, init_pc>>

batchVars == <<file_entries, batch_files, batch_pc>>

filterVars == <<filter_files, filter_use_gpu, kernel_ok, filter_result,
                filter_pc>>

windowVars == <<threads, recovery_thread, event_queue, window_found_files,
                files_list, scan_button, folder_scan_button, restore_button,
                progress_bar, status_label, dialogs_opened, last_slot>>

folderVars == <<folder_tree, slow_location, all_locations, folder_result,
                folder_pc>>

longVars == <<long_chunk, long_offset, long_found, long_pc>>

wizardVars == <<wizard_threads, wizard_thread, engine_cancel, wizard_queue,
                current_step, wizard_main, scanning_shown, results_shown,
                cancelled_scans, late_completions>>

\* the variables of the components added after the recovery batch
otherVars == <<initVars, batchVars, filterVars, windowVars, folderVars,
              longVars, wizardVars>>

fnVars == <<scoreVars, sigVars, walkVars, recVars, otherVars>>

vars == <<scanOnly, progress_calls, parVars, fnVars>>

----
\* Bounds of the model.

\* entries a small non-empty directory yields in the model
MaxSmall == 1
\* longest list of locations passed to scan_locations_parallel
MaxLocations == 3
\* largest cpu_count
MaxCpu == 1
\* entries of a large directory (two of them pass the re-ranking threshold)
BigDir == 600

----
\* Program constants.

\* len(scan_locations) of the deep scan
NumDeepLocations == 8
\* len(temp_locations) of the raw scan
NumTempLocations == 5
\* "if len(recovered_files) > 50: break" of the raw scan
RawLimit == 50
\* result cap of _scan_directory_with_signatures
SigWalkCap == 50
\* mock_signatures[:2] of _scan_unallocated_space
NumMockUnallocated == 2

\* "len(all_files) > 1000" of scan_locations_parallel
GpuThreshold == 1000
\* "Cap at 16 threads"
ThreadCap == 16

Modes == {"quick", "deep", "raw", "partition"}

----
\* Helpers.

Range(s) == {s[k] : k \in 1..Len(s)}

RECURSIVE TotalCount(_)
\* len() of a list kept as runs
TotalCount(s) == IF s = <<>> THEN 0 ELSE Head(s).n + TotalCount(Tail(s))

\* the run for n entries a unit produced (nothing when n = 0)
UnitRuns(src, u, n) == IF n = 0 THEN <<>> ELSE <<[src |-> src, unit |-> u, n |-> n]>>

\* progress_callback of RecoveryWizardThread.run: forwards unless stopped
Emit(log, p) == IF should_stop THEN log ELSE Append(log, p)

\* one call of progress_callback(p, ...) from the engine
Callback(p) ==
    /\ progress_calls' = Append(progress_calls, p)
    /\ progress_emitted' = Emit(progress_emitted, p)

\* numbers of entries one directory unit may yield: an empty directory, a
\* small one, and (raw scan) one that fills the walk's result cap
DeepCounts == {0, MaxSmall}
RawCounts == {0, MaxSmall, SigWalkCap}

\* the coordinator before scan_locations_parallel is called
ParIdle ==
    /\ locations = <<>>
    /\ cpu_count = 1
    /\ use_gpu = FALSE
    /\ ppc = "off"
    /\ sub = 1
    /\ fut = <<>>
    /\ cidx = 1
    /\ outcome = <<>>
    /\ all_files = <<>>
    /\ completed_locations = 0
    /\ done_order = <<>>
    /\ rerank = "none"

\* no entry is being scored
ScoreIdle ==
    /\ filename = <<>>
    /\ age_seconds = 0
    /\ file_score = 0
    /\ score_pc = "off"

\* the components other than the two scans, before they are used
\* no bytes are being looked at
SigIdle ==
    /\ chunk = <<>>
    /\ offset = 0
    /\ found_files = <<>>
    /\ identified = 0
    /\ sig_done = {"off"}

\* no directory is being walked
WalkIdle ==
    /\ tree = [directory_seps |-> 1, dirs |-> <<>>]
    /\ walk_kind = "off"
    /\ walk_files = <<>>

\* no batch is being recovered
RecoverIdle ==
    /\ recovery_engine = "none"
    /\ selected_files = <<>>
    /\ dest_dir = {}
    /\ recovery_i = 0
    /\ successful = 0
    /\ failed = 0
    /\ recovery_should_stop = FALSE
    /\ recovery_pc = "off"
    /\ last_call = [index |-> 0, result |-> "none", wrote |-> <<>>, read |-> FALSE,
                    before |-> {}]

\* no scanner is being constructed
ConstructIdle ==
    /\ machine_cores = 1
    /\ opencl_available = FALSE
    /\ init_gpu_ok = FALSE
    /\ scanner = [cpu_count |-> 0, use_gpu |-> FALSE, max_threads |-> 0]
    /\ init_pc = "off"

\* no batch of entries is being processed
BatchIdle ==
    /\ file_entries = <<>>
    /\ batch_files = <<>>
    /\ batch_pc = "off"

\* no list is being re-ranked
FilterIdle ==
    /\ filter_files = <<>>
    /\ filter_use_gpu = FALSE
    /\ kernel_ok = FALSE
    /\ filter_result = <<>>
    /\ filter_pc = "off"

\* no main window is open
WindowIdle ==
    /\ threads = <<>>
    /\ recovery_thread = 0
    /\ event_queue = <<>>
    /\ window_found_files = <<>>
    /\ files_list = <<>>
    /\ scan_button = FALSE
    /\ folder_scan_button = FALSE
    /\ restore_button = FALSE
    /\ progress_bar = [visible |-> FALSE, value |-> 0]
    /\ status_label = "off"
    /\ dialogs_opened = 0
    /\ last_slot = "off"

\* no folder is being scanned
FolderIdle ==
    /\ folder_tree = <<>>
    /\ slow_location = 0
    /\ all_locations = <<>>
    /\ folder_result = <<>>
    /\ folder_pc = "off"

\* no long chunk is being looked at
LongIdle ==
    /\ long_chunk = [head |-> <<>>, gap |-> 0, tail |-> <<>>]
    /\ long_offset = 0
    /\ long_found = <<>>
    /\ long_pc = "off"

\* no wizard is open
WizardIdle ==
    /\ wizard_threads = <<>>
    /\ wizard_thread = 0
    /\ engine_cancel = FALSE
    /\ wizard_queue = <<>>
    /\ current_step = 0
    /\ wizard_main = "off"
    /\ scanning_shown = FALSE
    /\ results_shown = 0
    /\ cancelled_scans = {}
    /\ late_completions = 0

OtherIdle ==
    /\ ConstructIdle
    /\ BatchIdle
    /\ FilterIdle
    /\ WindowIdle
    /\ FolderIdle
    /\ LongIdle
    /\ WizardIdle

FnIdle ==
    /\ OtherIdle
    /\ ScoreIdle
    /\ SigIdle
    /\ WalkIdle
    /\ RecoverIdle

----
\* Scan session.

NoCancel == [called |-> FALSE, done |-> 0, at |-> "none"]

\* no RecoveryWizardThread exists
ScanOff ==
    /\ mode = "quick"
    /\ pc = "off"
    /\ i = 0
    /\ total_paths = 0
    /\ cancel_requested = FALSE
    /\ should_stop = FALSE
    /\ stop_pc = "idle"
    /\ recovered_files = <<>>
    /\ deleted_files = <<>>
    /\ returned = <<>>
    /\ files_found = FALSE
    /\ delivered = <<>>
    /\ scan_completed = FALSE
    /\ progress_calls = <<>>
    /\ progress_emitted = <<>>
    /\ produced = <<>>
    /\ units_done = 0
    /\ dispatched = 0
    /\ cancel_point = NoCancel

InitScan ==
    /\ mode \in Modes
    /\ pc = "created"
    /\ i = 0
    /\ total_paths = 0
    /\ cancel_requested \in BOOLEAN   \* left over from an earlier session
    /\ should_stop = FALSE
    /\ stop_pc = "idle"
    /\ recovered_files = <<>>
    /\ deleted_files = <<>>
    /\ returned = <<>>
    /\ files_found = FALSE
    /\ delivered = <<>>
    /\ scan_completed = FALSE
    /\ progress_calls = <<>>
    /\ progress_emitted = <<>>
    /\ produced = <<>>
    /\ units_done = 0
    /\ dispatched = 0
    /\ cancel_point = NoCancel
    /\ ParIdle
    /\ FnIdle

\* scan_drive entry: clear the flag, then branch on the mode
ScanDriveStart ==
    /\ UNCHANGED <<parVars, fnVars>>
    /\ pc = "created"
    /\ cancel_requested' = FALSE
    /\ recovered_files' = <<>>
    /\ i' = 0
    /\ CASE mode = "deep" ->
              /\ pc' = "loop"
              /\ Callback(10)
              /\ UNCHANGED total_paths
         [] mode = "raw" ->
              /\ pc' = "loop"
              /\ Callback(10)
              /\ total_paths' \in 0..NumTempLocations
         [] mode = "partition" ->
              /\ pc' = "scan_end"
              /\ Callback(50)
              /\ UNCHANGED total_paths
         [] OTHER ->
              /\ pc' = "scan_end"
              /\ UNCHANGED <<progress_calls, progress_emitted, total_paths>>
    /\ UNCHANGED <<mode, should_stop, stop_pc, deleted_files, returned, files_found, delivered,
                   scan_completed, produced, units_done, dispatched, cancel_point>>

NumUnits == IF mode = "deep" THEN NumDeepLocations ELSE total_paths

\* variant of LoopProgress: the 0-100 scale of _quick_scan in both loops
LoopProgressQuick ==
    IF mode = "deep" THEN (i * 100) \div NumDeepLocations
    ELSE (i * 100) \div total_paths

\* 10 + int((i / total) * 40) in the deep loop, 10 + int((i / total) * 80)
\* in the raw loop
LoopProgress ==
    IF mode = "deep" THEN 10 + (i * 40) \div NumDeepLocations
    ELSE 10 + (i * 80) \div total_paths

\* top of a loop iteration with the flag clear: report progress, begin the unit
UnitStart ==
    /\ UNCHANGED <<parVars, fnVars>>
    /\ pc = "loop"
    /\ i < NumUnits
    /\ ~cancel_requested
    /\ Callback(LoopProgress)
    /\ pc' = "unit"
    /\ dispatched' = dispatched + 1
    /\ UNCHANGED <<mode, i, total_paths, cancel_requested, should_stop, stop_pc,
                   recovered_files, deleted_files, returned, files_found, delivered, scan_completed,
                   produced, units_done, cancel_point>>

\* variant of LoopBreak: the break also drops what was accumulated
LoopBreakDiscard ==
    /\ UNCHANGED <<parVars, fnVars>>
    /\ pc = "loop"
    /\ i < NumUnits
    /\ cancel_requested
    /\ pc' = "after_loop"
    /\ recovered_files' = <<>>
    /\ UNCHANGED <<mode, i, total_paths, cancel_requested, should_stop, stop_pc,
                   deleted_files, returned, files_found, delivered, scan_completed,
                   progress_calls, progress_emitted, produced, units_done,
                   dispatched, cancel_point>>

\* top of a loop iteration with the flag set: break
LoopBreak ==
    /\ UNCHANGED <<parVars, fnVars>>
    /\ pc = "loop"
    /\ i < NumUnits
    /\ cancel_requested
    /\ pc' = "after_loop"
    /\ UNCHANGED <<mode, i, total_paths, cancel_requested, should_stop, stop_pc,
                   recovered_files, deleted_files, returned, files_found, delivered, scan_completed,
                   progress_calls, progress_emitted, produced, units_done,
                   dispatched, cancel_point>>

\* the loop ran out of locations
LoopEnd ==
    /\ UNCHANGED <<parVars, fnVars>>
    /\ pc = "loop"
    /\ i >= NumUnits
    /\ pc' = "after_loop"
    /\ UNCHANGED <<mode, i, total_paths, cancel_requested, should_stop, stop_pc,
                   recovered_files, deleted_files, returned, files_found, delivered, scan_completed,
                   progress_calls, progress_emitted, produced, units_done,
                   dispatched, cancel_point>>

\* the unit's directory scan returns n entries and they are appended
UnitComplete ==
    /\ UNCHANGED <<parVars, fnVars>>
    /\ pc = "unit"
    /\ \E n \in (IF mode = "deep" THEN DeepCounts ELSE RawCounts) :
         LET new == UnitRuns("loc", i + 1, n) IN
           /\ recovered_files' = recovered_files \o new
           /\ produced' = produced \o new
           /\ pc' = IF mode = "raw" /\ TotalCount(recovered_files \o new) > RawLimit
                    THEN "after_loop" ELSE "loop"
    /\ i' = i + 1
    /\ units_done' = units_done + 1
    /\ UNCHANGED <<mode, total_paths, cancel_requested, should_stop, stop_pc,
                   deleted_files, returned, files_found, delivered, scan_completed, progress_calls,
                   progress_emitted, dispatched, cancel_point>>

\* the location is missing, or its scan raised: nothing is appended
UnitSkipped ==
    /\ UNCHANGED <<parVars, fnVars>>
    /\ pc = "unit"
    /\ pc' = "loop"
    /\ i' = i + 1
    /\ units_done' = units_done + 1
    /\ UNCHANGED <<mode, total_paths, cancel_requested, should_stop, stop_pc,
                   recovered_files, deleted_files, returned, files_found, delivered, scan_completed,
                   progress_calls, progress_emitted, produced, dispatched,
                   cancel_point>>

\* after the deep loop: the two 60% reports, then the later phase begins
\* (_scan_permanently_deleted_files reports 65% on entry)
DeepPhaseTwoStart ==
    /\ UNCHANGED <<parVars, fnVars>>
    /\ pc = "after_loop"
    /\ mode = "deep"
    /\ progress_calls' = progress_calls \o <<60, 60, 65>>
    /\ progress_emitted' = Emit(Emit(Emit(progress_emitted, 60), 60), 65)
    /\ deleted_files' = <<>>
    /\ dispatched' = dispatched + 1
    /\ pc' = "recent"
    /\ UNCHANGED <<mode, i, total_paths, cancel_requested, should_stop, stop_pc,
                   recovered_files, returned, files_found, delivered, scan_completed,
                   produced, units_done, cancel_point>>

\* _scan_recent_operations, then the 75% report
ScanRecentOperations ==
    /\ UNCHANGED <<parVars, fnVars>>
    /\ pc = "recent"
    /\ \E n \in {0, MaxSmall} :
         deleted_files' = deleted_files \o UnitRuns("recent", 0, n)
    /\ Callback(75)
    /\ pc' = "journal"
    /\ UNCHANGED <<mode, i, total_paths, cancel_requested, should_stop, stop_pc,
                   recovered_files, returned, files_found, delivered, scan_completed,
                   produced, units_done, dispatched, cancel_point>>

\* _scan_filesystem_journal (at most one entry), then the 85% report
ScanFilesystemJournal ==
    /\ UNCHANGED <<parVars, fnVars>>
    /\ pc = "journal"
    /\ \E n \in 0..1 :
         deleted_files' = deleted_files \o UnitRuns("journal", 0, n)
    /\ Callback(85)
    /\ pc' = "fragments"
    /\ UNCHANGED <<mode, i, total_paths, cancel_requested, should_stop, stop_pc,
                   recovered_files, returned, files_found, delivered, scan_completed,
                   produced, units_done, dispatched, cancel_point>>

\* _scan_file_fragments, then the 95% report
ScanFileFragments ==
    /\ UNCHANGED <<parVars, fnVars>>
    /\ pc = "fragments"
    /\ \E n \in {0, MaxSmall} :
         deleted_files' = deleted_files \o UnitRuns("fragment", 0, n)
    /\ Callback(95)
    /\ pc' = "unallocated"
    /\ UNCHANGED <<mode, i, total_paths, cancel_requested, should_stop, stop_pc,
                   recovered_files, returned, files_found, delivered, scan_completed,
                   produced, units_done, dispatched, cancel_point>>

\* _scan_unallocated_space (always the two mock entries); back in
\* _optimized_deep_scan the phase's entries are appended and 100% is reported
ScanUnallocatedSpace ==
    /\ UNCHANGED <<parVars, fnVars>>
    /\ pc = "unallocated"
    /\ LET all == deleted_files \o UnitRuns("unallocated", 0, NumMockUnallocated) IN
         /\ deleted_files' = all
         /\ recovered_files' = recovered_files \o all
    /\ Callback(100)
    /\ pc' = "scan_end"
    /\ UNCHANGED <<mode, i, total_paths, cancel_requested, should_stop, stop_pc,
                   returned, files_found, delivered, scan_completed, produced, units_done,
                   dispatched, cancel_point>>

\* after the raw loop: "Raw scan completed"
RawFinish ==
    /\ UNCHANGED <<parVars, fnVars>>
    /\ pc = "after_loop"
    /\ mode = "raw"
    /\ Callback(100)
    /\ pc' = "scan_end"
    /\ UNCHANGED <<mode, i, total_paths, cancel_requested, should_stop, stop_pc,
                   recovered_files, deleted_files, returned, files_found, delivered,
                   scan_completed, produced, units_done, dispatched, cancel_point>>

\* scan_drive returns the list to RecoveryWizardThread.run
ScanDriveReturn ==
    /\ UNCHANGED <<parVars, fnVars>>
    /\ pc = "scan_end"
    /\ returned' = recovered_files
    /\ pc' = "returned"
    /\ UNCHANGED <<mode, i, total_paths, cancel_requested, should_stop, stop_pc,
                   recovered_files, deleted_files, files_found, delivered, scan_completed,
                   progress_calls, progress_emitted, produced, units_done,
                   dispatched, cancel_point>>

\* end of run: files_found and scan_completed are emitted unless stopped
ThreadFinish ==
    /\ UNCHANGED <<parVars, fnVars>>
    /\ pc = "returned"
    /\ pc' = "done"
    /\ IF should_stop
       THEN UNCHANGED <<files_found, delivered, scan_completed>>
       ELSE /\ files_found' = TRUE
            /\ delivered' = returned
            /\ scan_completed' = TRUE
    /\ UNCHANGED <<mode, i, total_paths, cancel_requested, should_stop, stop_pc,
                   recovered_files, deleted_files, returned, progress_calls,
                   progress_emitted, produced, units_done, dispatched,
                   cancel_point>>

CancelPoint == [called |-> TRUE, done |-> units_done, at |-> pc]

\* engine.cancel_scan() called on the running session
CancelScan ==
    /\ UNCHANGED <<parVars, fnVars>>
    /\ pc \notin {"off", "done"}
    /\ ~cancel_point.called
    /\ stop_pc = "idle"
    /\ cancel_requested' = TRUE
    /\ cancel_point' = CancelPoint
    /\ UNCHANGED <<mode, pc, i, total_paths, should_stop, stop_pc, recovered_files,
                   deleted_files, returned, files_found, delivered, scan_completed,
                   progress_calls, progress_emitted, produced, units_done,
                   dispatched>>

\* RecoveryWizardThread.stop(), first statement: _should_stop = True
StopSetFlag ==
    /\ UNCHANGED <<parVars, fnVars>>
    /\ pc \notin {"off", "done"}
    /\ ~cancel_point.called
    /\ stop_pc = "idle"
    /\ should_stop' = TRUE
    /\ stop_pc' = "cancel"
    /\ UNCHANGED <<mode, pc, i, total_paths, cancel_requested, recovered_files,
                   deleted_files, returned, files_found, delivered, scan_completed,
                   progress_calls, progress_emitted, produced, units_done,
                   dispatched, cancel_point>>

\* RecoveryWizardThread.stop(), second statement: engine.cancel_scan()
StopCancel ==
    /\ UNCHANGED <<parVars, fnVars>>
    /\ stop_pc = "cancel"
    /\ cancel_requested' = TRUE
    /\ stop_pc' = "done"
    /\ cancel_point' = CancelPoint
    /\ UNCHANGED <<mode, pc, i, total_paths, should_stop, recovered_files,
                   deleted_files, returned, files_found, delivered, scan_completed,
                   progress_calls, progress_emitted, produced, units_done,
                   dispatched>>

NextScan ==
    \/ ScanDriveStart
    \/ UnitStart
    \/ LoopBreak
    \/ LoopEnd
    \/ UnitComplete
    \/ UnitSkipped
    \/ DeepPhaseTwoStart
    \/ ScanRecentOperations
    \/ ScanFilesystemJournal
    \/ ScanFileFragments
    \/ ScanUnallocatedSpace
    \/ RawFinish
    \/ ScanDriveReturn
    \/ ThreadFinish
    \/ CancelScan
    \/ StopSetFlag
    \/ StopCancel

SpecScan == InitScan /\ [][NextScan]_vars

----
\* Parallel coordinator.

Min(a, b) == IF a < b THEN a ELSE b

\* variant of MaxThreads: the pool is not capped
MaxThreadsUncapped(c) == c * 2

\* self.max_threads
MaxThreads(c) == Min(c * 2, ThreadCap)

\* int((completed / total) * 100); the float expression and the integer
\* floor agree for every total up to 49
ProgressOf(c, total) == (c * 100) \div total

\* what _scan_location_optimized finds in a location: nothing (empty, not a
\* directory or inaccessible), a small directory, or a large directory whose
\* entries are not in score order
ContentChoices ==
    { <<>>,
      <<[score |-> 500, n |-> MaxSmall]>>,
      <<[score |-> 300, n |-> BigDir], [score |-> 1000, n |-> 1]>> }

LocChoices ==
    {[exists |-> FALSE, content |-> <<>>]}
        \cup {[exists |-> TRUE, content |-> c] : c \in ContentChoices}

\* the list _scan_location_optimized returns for location k
LocationFiles(k) ==
    [j \in 1..Len(locations[k].content) |->
        [src |-> "par", unit |-> k, idx |-> j,
         score |-> locations[k].content[j].score,
         n |-> locations[k].content[j].n]]

\* variant of Boost: the kernel without its min(1.0f, ...)
BoostUncapped(s) == (s * 11) \div 10

\* the enhance_scores kernel: score * 1.1 capped at 1.0 (float32 rounding of
\* the product is not modelled)
Boost(score) == Min(1000, (score * 11) \div 10)

Boosted(files) == [j \in 1..Len(files) |-> [files[j] EXCEPT !.score = Boost(@)]]

RECURSIVE InsertDesc(_, _)
\* insert r behind every entry whose score is not lower
InsertDesc(sorted, r) ==
    IF sorted = <<>> THEN <<r>>
    ELSE IF Head(sorted).score >= r.score
         THEN <<Head(sorted)>> \o InsertDesc(Tail(sorted), r)
         ELSE <<r>> \o sorted

RECURSIVE SortFrom(_, _)
SortFrom(sorted, rest) ==
    IF rest = <<>> THEN sorted
    ELSE SortFrom(InsertDesc(sorted, Head(rest)), Tail(rest))

\* files.sort(key=score, reverse=True): stable, descending
SortDesc(files) == SortFrom(<<>>, files)

Running == {k \in DOMAIN fut : fut[k] = "running"}

\* the collector's current future: the next submitted location from cidx on
HasFuture == \E k \in cidx..Len(locations) : fut[k] # "none"
CurFuture == CHOOSE k \in cidx..Len(locations) :
                 /\ fut[k] # "none"
                 /\ \A j \in cidx..(k - 1) : fut[j] = "none"

InitPar ==
    /\ locations \in UNION {[1..L -> LocChoices] : L \in 0..MaxLocations}
    /\ cpu_count \in 1..MaxCpu
    /\ use_gpu \in BOOLEAN
    /\ ppc = "submit"
    /\ sub = 1
    /\ fut = [k \in DOMAIN locations |-> "none"]
    /\ cidx = 1
    /\ outcome = [k \in DOMAIN locations |-> "none"]
    /\ all_files = <<>>
    /\ completed_locations = 0
    /\ done_order = <<>>
    /\ rerank = "none"
    /\ progress_calls = <<>>
    /\ mode = "quick"
    /\ pc = "off"
    /\ i = 0
    /\ total_paths = 0
    /\ cancel_requested = FALSE
    /\ should_stop = FALSE
    /\ stop_pc = "idle"
    /\ recovered_files = <<>>
    /\ deleted_files = <<>>
    /\ returned = <<>>
    /\ files_found = FALSE
    /\ delivered = <<>>
    /\ scan_completed = FALSE
    /\ progress_emitted = <<>>
    /\ produced = <<>>
    /\ units_done = 0
    /\ dispatched = 0
    /\ cancel_point = NoCancel
    /\ FnIdle

\* executor.submit for a location that exists
Submit ==
    /\ ppc = "submit"
    /\ sub <= Len(locations)
    /\ locations[sub].exists
    /\ fut' = [fut EXCEPT ![sub] = "pending"]
    /\ sub' = sub + 1
    /\ UNCHANGED <<fnVars, scanOnly, progress_calls, locations, cpu_count, use_gpu, ppc,
                   cidx, outcome, all_files, completed_locations, done_order,
                   rerank>>

\* "if loc.exists()" filters the location out
SkipMissing ==
    /\ ppc = "submit"
    /\ sub <= Len(locations)
    /\ ~locations[sub].exists
    /\ sub' = sub + 1
    /\ UNCHANGED <<fnVars, scanOnly, progress_calls, locations, cpu_count, use_gpu, ppc,
                   fut, cidx, outcome, all_files, completed_locations,
                   done_order, rerank>>

\* the comprehension is exhausted; the collecting loop starts
SubmitDone ==
    /\ ppc = "submit"
    /\ sub > Len(locations)
    /\ ppc' = "collect"
    /\ UNCHANGED <<fnVars, scanOnly, progress_calls, locations, cpu_count, use_gpu, sub,
                   fut, cidx, outcome, all_files, completed_locations,
                   done_order, rerank>>

\* a free worker takes the oldest queued task
TaskStart ==
    /\ \E k \in DOMAIN fut :
         /\ fut[k] = "pending"
         /\ \A j \in 1..(k - 1) : fut[j] # "pending"
         /\ Cardinality(Running) < MaxThreads(cpu_count)
         /\ fut' = [fut EXCEPT ![k] = "running"]
    /\ UNCHANGED <<fnVars, scanOnly, progress_calls, locations, cpu_count, use_gpu, ppc,
                   sub, cidx, outcome, all_files, completed_locations,
                   done_order, rerank>>

\* _scan_location_optimized returns in its worker
TaskFinish ==
    /\ \E k \in DOMAIN fut :
         /\ fut[k] = "running"
         /\ fut' = [fut EXCEPT ![k] = "done"]
         /\ done_order' = Append(done_order, k)
    /\ UNCHANGED <<fnVars, scanOnly, progress_calls, locations, cpu_count, use_gpu, ppc,
                   sub, cidx, outcome, all_files, completed_locations, rerank>>

\* variant of Collect: the unit's list replaces all_files
CollectAssign ==
    /\ ppc = "collect"
    /\ HasFuture
    /\ fut[CurFuture] = "done"
    /\ all_files' = LocationFiles(CurFuture)
    /\ completed_locations' = completed_locations + 1
    /\ progress_calls' =
           Append(progress_calls, ProgressOf(completed_locations + 1, Len(locations)))
    /\ outcome' = [outcome EXCEPT ![CurFuture] = "merged"]
    /\ cidx' = CurFuture + 1
    /\ UNCHANGED <<fnVars, scanOnly, locations, cpu_count, use_gpu, ppc, sub, fut,
                   done_order, rerank>>

\* future.result(timeout=30) returns: extend, count, report progress
Collect ==
    /\ ppc = "collect"
    /\ HasFuture
    /\ fut[CurFuture] = "done"
    /\ all_files' = all_files \o LocationFiles(CurFuture)
    /\ completed_locations' = completed_locations + 1
    /\ progress_calls' =
           Append(progress_calls, ProgressOf(completed_locations + 1, Len(locations)))
    /\ outcome' = [outcome EXCEPT ![CurFuture] = "merged"]
    /\ cidx' = CurFuture + 1
    /\ UNCHANGED <<fnVars, scanOnly, locations, cpu_count, use_gpu, ppc, sub, fut,
                   done_order, rerank>>

\* future.result(timeout=30) raises TimeoutError: the unit is skipped
CollectTimeout ==
    /\ ppc = "collect"
    /\ HasFuture
    /\ fut[CurFuture] \in {"pending", "running"}
    /\ outcome' = [outcome EXCEPT ![CurFuture] = "timeout"]
    /\ cidx' = CurFuture + 1
    /\ UNCHANGED <<fnVars, scanOnly, progress_calls, locations, cpu_count, use_gpu, ppc,
                   sub, fut, all_files, completed_locations, done_order, rerank>>

\* no future is left to wait on
CollectEnd ==
    /\ ppc = "collect"
    /\ ~HasFuture
    /\ ppc' = "shutdown"
    /\ UNCHANGED <<fnVars, scanOnly, progress_calls, locations, cpu_count, use_gpu, sub,
                   fut, cidx, outcome, all_files, completed_locations,
                   done_order, rerank>>

\* variant of Shutdown: leave without waiting for the workers
ShutdownNoWait ==
    /\ ppc = "shutdown"
    /\ ppc' = "post"
    /\ UNCHANGED <<fnVars, scanOnly, progress_calls, locations, cpu_count, use_gpu, sub,
                   fut, cidx, outcome, all_files, completed_locations,
                   done_order, rerank>>

\* leaving the with block: executor.shutdown(wait=True)
Shutdown ==
    /\ ppc = "shutdown"
    /\ \A k \in DOMAIN fut : fut[k] \in {"none", "done"}
    /\ ppc' = "post"
    /\ UNCHANGED <<fnVars, scanOnly, progress_calls, locations, cpu_count, use_gpu, sub,
                   fut, cidx, outcome, all_files, completed_locations,
                   done_order, rerank>>

NeedsRerank == use_gpu /\ TotalCount(all_files) > GpuThreshold

\* no post-processing: all_files is returned as collected
PostSkip ==
    /\ ppc = "post"
    /\ ~NeedsRerank
    /\ ppc' = "returned"
    /\ UNCHANGED <<fnVars, scanOnly, progress_calls, locations, cpu_count, use_gpu, sub,
                   fut, cidx, outcome, all_files, completed_locations,
                   done_order, rerank>>

\* _gpu_filter_files, kernel succeeds: boosted scores, sorted descending
PostGpu ==
    /\ ppc = "post"
    /\ NeedsRerank
    /\ all_files' = SortDesc(Boosted(all_files))
    /\ rerank' = "gpu"
    /\ ppc' = "returned"
    /\ UNCHANGED <<fnVars, scanOnly, progress_calls, locations, cpu_count, use_gpu, sub,
                   fut, cidx, outcome, completed_locations, done_order>>

\* _gpu_filter_files, kernel fails: sorted descending by the unchanged score
PostGpuFallback ==
    /\ ppc = "post"
    /\ NeedsRerank
    /\ all_files' = SortDesc(all_files)
    /\ rerank' = "cpu"
    /\ ppc' = "returned"
    /\ UNCHANGED <<fnVars, scanOnly, progress_calls, locations, cpu_count, use_gpu, sub,
                   fut, cidx, outcome, completed_locations, done_order>>

NextPar ==
    \/ Submit
    \/ SkipMissing
    \/ SubmitDone
    \/ TaskStart
    \/ TaskFinish
    \/ Collect
    \/ CollectTimeout
    \/ CollectEnd
    \/ Shutdown
    \/ PostSkip
    \/ PostGpu
    \/ PostGpuFallback

SpecPar == InitPar /\ [][NextPar]_vars

\* either scan, for what holds of every scan
InitAny == InitScan \/ InitPar

NextAny == NextScan \/ NextPar

SpecAny == InitAny /\ [][NextAny]_vars

----
\* Claims about the scan session.

\* the cancel took effect before the first unit began, in a mode that has units
CancelledBeforeFirstUnit ==
    /\ cancel_point.called
    /\ cancel_point.done = 0
    /\ cancel_point.at \in {"created", "loop"}
    /\ mode \in {"deep", "raw"}
    /\ NumUnits >= 1

\* the entries the units completed before the cancel produced
EntriesBeforeCancel == {r \in Range(produced) : r.unit <= cancel_point.done}

\* C1: a session cancelled before any of its units completed never ends as
\* Completed: no scan_completed signal and no 100% progress is produced.
C1_CancelledNeverCompleted ==
    (pc = "done" /\ CancelledBeforeFirstUnit)
        => (~scan_completed /\ 100 \notin Range(progress_emitted))

C3_ExactlyUnitOne ==
    (/\ pc \in {"returned", "done"}
     /\ cancel_point.called
     /\ cancel_point.done = 1
     /\ cancel_point.at = "loop"
     /\ mode \in {"deep", "raw"}
     /\ (mode = "raw" => total_paths = 4))
        => returned = SelectSeq(produced, LAMBDA r : r.unit = 1)

\* C4: while the cancel flag is set no unit and no later scan phase begins.
C4_NoDispatchAfterCancel ==
    [][cancel_requested => dispatched' = dispatched]_vars

----
\* Claims about the parallel coordinator.

Merged(k) == outcome[k] = "merged"

RECURSIVE ConcatFrom(_)
\* the lists of the merged units from location k on, in submission order
ConcatFrom(k) ==
    IF k > Len(locations) THEN <<>>
    ELSE (IF Merged(k) THEN LocationFiles(k) ELSE <<>>) \o ConcatFrom(k + 1)

\* what a scan without acceleration returns for the same collected units
CpuOnlyResult == ConcatFrom(1)

RECURSIVE SequentialCount(_)
\* len() of scanning locations k.. one after the other
SequentialCount(k) ==
    IF k > Len(locations) THEN 0
    ELSE TotalCount(locations[k].content) + SequentialCount(k + 1)

\* an entry without its score
Ident(r) == [unit |-> r.unit, idx |-> r.idx, n |-> r.n]

\* positions of a unit's entries in all_files
PositionsOf(k) == {j \in 1..Len(all_files) : all_files[j].unit = k}

\* position of a location in done_order
DoneAt(k) == CHOOSE j \in 1..Len(done_order) : done_order[j] = k

\* C5: the result is handed back only after every dispatched unit has
\* terminated.
C5_AllUnitsTerminatedAtReturn ==
    ppc \in {"post", "returned"}
        => \A k \in DOMAIN fut : fut[k] \in {"none", "done"}

\* the call returned although one unit had timed out, and that unit has ended
C5_Witness ==
    /\ ppc = "returned"
    /\ \E k \in DOMAIN fut : outcome[k] = "timeout" /\ fut[k] = "done"

\* C6: the merged result holds exactly the entries of the units collected
\* successfully, each once; a timed-out unit contributes none and does not
\* stop the others from being collected; without a timeout the count equals
\* that of scanning the locations sequentially.
C6_MergedExactlySuccessfulUnits ==
    ppc = "returned" =>
        /\ Len(all_files) = Len(CpuOnlyResult)
        /\ {Ident(all_files[j]) : j \in 1..Len(all_files)}
               = {Ident(CpuOnlyResult[j]) : j \in 1..Len(CpuOnlyResult)}
        /\ TotalCount(all_files) = TotalCount(CpuOnlyResult)
        /\ \A k \in DOMAIN fut :
               /\ fut[k] # "none" => outcome[k] \in {"merged", "timeout"}
               /\ outcome[k] = "timeout" => PositionsOf(k) = {}
        /\ (\A k \in DOMAIN fut : outcome[k] # "timeout")
               => TotalCount(all_files) = SequentialCount(1)

\* a timed-out unit that had entries was left out and a unit after it was
\* still merged
C6_Witness ==
    /\ ppc = "returned"
    /\ \E k, m \in DOMAIN fut :
         /\ k < m
         /\ outcome[k] = "timeout"
         /\ locations[k].content # <<>>
         /\ outcome[m] = "merged"
         /\ locations[m].content # <<>>

\* C7: the per-unit lists are concatenated in completion order: a unit that
\* finished earlier has its entries earlier in the final list.
C7_CompletionOrder ==
    (ppc = "returned" /\ rerank = "none") =>
        \A a, b \in DOMAIN fut :
            (Merged(a) /\ Merged(b) /\ DoneAt(b) < DoneAt(a))
                => \A x \in PositionsOf(b), y \in PositionsOf(a) : x < y

C9_ProgressReachesHundred ==
    (ppc = "returned" /\ Len(locations) >= 1)
        => (progress_calls # <<>> /\ 100 \in Range(progress_calls))

\* C10: the call returns the same list (entries, scores, order) with
\* acceleration as without it.
C10_SameResultWithoutGpu ==
    ppc = "returned" => all_files = CpuOnlyResult

----
\* Scoring of one directory entry (accelerated_scanner.py).
\* A filename is a sequence of one-character strings.

Max(a, b) == IF a > b THEN a ELSE b

\* most name pieces one filename of the model is made of
MaxNameTokens == 2

UpperCase == <<"A", "B", "C", "D", "E", "F", "G", "H", "I", "J", "K", "L", "M",
               "N", "O", "P", "Q", "R", "S", "T", "U", "V", "W", "X", "Y", "Z">>
LowerCase == <<"a", "b", "c", "d", "e", "f", "g", "h", "i", "j", "k", "l", "m",
               "n", "o", "p", "q", "r", "s", "t", "u", "v", "w", "x", "y", "z">>

\* str.lower() on one character
LowerChar(c) ==
    IF \E k \in 1..26 : UpperCase[k] = c
    THEN LowerCase[CHOOSE k \in 1..26 : UpperCase[k] = c]
    ELSE c

\* str.lower()
Lower(s) == [k \in 1..Len(s) |-> LowerChar(s[k])]

\* s.startswith(p), s.endswith(p), p in s
StartsWith(s, p) == Len(p) <= Len(s) /\ SubSeq(s, 1, Len(p)) = p
EndsWith(s, p) == Len(p) <= Len(s) /\ SubSeq(s, Len(s) - Len(p) + 1, Len(s)) = p
Contains(s, p) == \E k \in 0..(Len(s) - Len(p)) : SubSeq(s, k + 1, k + Len(p)) = p

\* valuable_extensions
ValuableExtensions ==
    { <<".", "d", "o", "c">>, <<".", "d", "o", "c", "x">>, <<".", "p", "d", "f">>,
      <<".", "t", "x", "t">>, <<".", "j", "p", "g">>, <<".", "p", "n", "g">>,
      <<".", "m", "p", "4">>, <<".", "z", "i", "p">> }

SecondsPerDay == 86400

\* the pieces filenames of the model are concatenated from
NameTokens ==
    { <<".">>, <<"a">>, <<"c", "a", "c", "h", "e">>, <<"C", "a", "c", "h", "e">>,
      <<".", "p", "d", "f">>, <<".", "P", "D", "F">>, <<".", "d", "o", "c", "x">>,
      <<".", "t", "m", "p">> }

RECURSIVE NamesOf(_)
\* the filenames made of n pieces
NamesOf(n) ==
    IF n = 0 THEN {<<>>}
    ELSE {t \o r : t \in NameTokens, r \in NamesOf(n - 1)}

Filenames == UNION {NamesOf(n) : n \in 1..MaxNameTokens}

\* ages on both sides of every bracket, a clock set back, and an old file
AgeChoices ==
    { 0 - 3600, 0, SecondsPerDay - 1, SecondsPerDay, 7 * SecondsPerDay - 1,
      7 * SecondsPerDay, 30 * SecondsPerDay - 1, 30 * SecondsPerDay,
      365 * SecondsPerDay }

\* "Boost score for recently modified files": age_days < 1, < 7, < 30
AgeBoost(age) ==
    IF age < SecondsPerDay THEN 300
    ELSE IF age < 7 * SecondsPerDay THEN 200
    ELSE IF age < 30 * SecondsPerDay THEN 100
    ELSE 0

\* _calculate_recovery_score, in thousandths
CalculateRecoveryScore(name, age) ==
    LET typed == \E ext \in ValuableExtensions : EndsWith(Lower(name), ext)
        system == \/ StartsWith(name, <<".">>)
                  \/ Contains(Lower(name), <<"c", "a", "c", "h", "e">>)
        raw == 500 + AgeBoost(age) + (IF typed THEN 200 ELSE 0)
                   - (IF system THEN 200 ELSE 0)
    IN Max(0, Min(1000, raw))

InitScore ==
    /\ filename \in Filenames
    /\ age_seconds \in AgeChoices
    /\ file_score = 0
    /\ score_pc = "stat"
    /\ OtherIdle
    /\ ScanOff
    /\ ParIdle
    /\ SigIdle
    /\ WalkIdle
    /\ RecoverIdle

\* _process_file_batch builds file_info for the entry
ProcessFileBatch ==
    /\ score_pc = "stat"
    /\ file_score' = CalculateRecoveryScore(filename, age_seconds)
    /\ score_pc' = "listed"
    /\ UNCHANGED <<otherVars, scanOnly, progress_calls, parVars, sigVars, walkVars, recVars,
                   filename, age_seconds>>

\* _gpu_filter_files rewrites the score of the entry with the kernel's output
GpuFilterFiles ==
    /\ score_pc = "listed"
    /\ file_score' = Boost(file_score)
    /\ score_pc' = "enhanced"
    /\ UNCHANGED <<otherVars, scanOnly, progress_calls, parVars, sigVars, walkVars, recVars,
                   filename, age_seconds>>

NextScore ==
    \/ ProcessFileBatch
    \/ GpuFilterFiles

SpecScore == InitScore /\ [][NextScore]_vars

\* C11: the score of an entry lies in [0, 1] (0..1000 thousandths) for every
\* filename and every age, when _process_file_batch lists the entry and after
\* the re-ranking pass rewrote it.
C11_ScoreInUnitInterval ==
    score_pc \in {"listed", "enhanced"} => (0 <= file_score /\ file_score <= 1000)

\* a fresh document scores the full 1.0, and the re-ranking pass ran on it
C11_Witness ==
    /\ score_pc = "enhanced"
    /\ file_score = 1000
    /\ age_seconds < SecondsPerDay
    /\ EndsWith(Lower(filename), <<".", "p", "d", "f">>)

----
\* Signature lookup (advanced_recovery.py).  Bytes are the integers 0..255;
\* offsets are 0-based as in the code.

\* most body pieces that follow the header in a chunk of the model
MaxBody == 3

\* FILE_SIGNATURES: a footer of None is the empty sequence
FILE_SIGNATURES ==
    << [extension |-> "jpg", header |-> <<255, 216, 255>>,
        footer |-> <<255, 217>>, max_size |-> 50 * 1048576],
       [extension |-> "png", header |-> <<137, 80, 78, 71, 13, 10, 26, 10>>,
        footer |-> <<0, 0, 0, 0, 73, 69, 78, 68, 174, 66, 96, 130>>, max_size |-> 50 * 1048576],
       [extension |-> "gif", header |-> <<71, 73, 70, 56>>,
        footer |-> <<>>, max_size |-> 20 * 1048576],
       [extension |-> "bmp", header |-> <<66, 77>>,
        footer |-> <<>>, max_size |-> 50 * 1048576],
       [extension |-> "tiff", header |-> <<73, 73, 42, 0>>,
        footer |-> <<>>, max_size |-> 100 * 1048576],
       [extension |-> "webp", header |-> <<82, 73, 70, 70>>,
        footer |-> <<87, 69, 66, 80>>, max_size |-> 20 * 1048576],
       [extension |-> "pdf", header |-> <<37, 80, 68, 70, 45>>,
        footer |-> <<37, 37, 69, 79, 70>>, max_size |-> 500 * 1048576],
       [extension |-> "docx", header |-> <<80, 75, 3, 4>>,
        footer |-> <<>>, max_size |-> 100 * 1048576],
       [extension |-> "xlsx", header |-> <<80, 75, 3, 4>>,
        footer |-> <<>>, max_size |-> 100 * 1048576],
       [extension |-> "pptx", header |-> <<80, 75, 3, 4>>,
        footer |-> <<>>, max_size |-> 100 * 1048576],
       [extension |-> "rtf", header |-> <<123, 92, 114, 116, 102, 49>>,
        footer |-> <<125>>, max_size |-> 50 * 1048576],
       [extension |-> "zip", header |-> <<80, 75, 3, 4>>,
        footer |-> <<>>, max_size |-> 1000 * 1048576],
       [extension |-> "rar", header |-> <<82, 97, 114, 33, 26, 7, 0>>,
        footer |-> <<>>, max_size |-> 1000 * 1048576],
       [extension |-> "7z", header |-> <<55, 122, 188, 175, 39, 28>>,
        footer |-> <<>>, max_size |-> 1000 * 1048576],
       [extension |-> "tar", header |-> <<117, 115, 116, 97, 114>>,
        footer |-> <<>>, max_size |-> 1000 * 1048576],
       [extension |-> "mp3", header |-> <<73, 68, 51>>,
        footer |-> <<>>, max_size |-> 100 * 1048576],
       [extension |-> "mp4", header |-> <<0, 0, 0, 24, 102, 116, 121, 112, 109, 112, 52>>,
        footer |-> <<>>, max_size |-> 2000 * 1048576],
       [extension |-> "avi", header |-> <<82, 73, 70, 70>>,
        footer |-> <<65, 86, 73, 32>>, max_size |-> 2000 * 1048576],
       [extension |-> "mov", header |-> <<0, 0, 0, 20, 102, 116, 121, 112>>,
        footer |-> <<>>, max_size |-> 2000 * 1048576],
       [extension |-> "wav", header |-> <<82, 73, 70, 70>>,
        footer |-> <<87, 65, 86, 69>>, max_size |-> 200 * 1048576],
       [extension |-> "flac", header |-> <<102, 76, 97, 67>>,
        footer |-> <<>>, max_size |-> 200 * 1048576],
       [extension |-> "exe", header |-> <<77, 90>>,
        footer |-> <<>>, max_size |-> 500 * 1048576],
       [extension |-> "dll", header |-> <<77, 90>>,
        footer |-> <<>>, max_size |-> 100 * 1048576],
       [extension |-> "msi", header |-> <<208, 207, 17, 224, 161, 177, 26, 225>>,
        footer |-> <<>>, max_size |-> 500 * 1048576],
       [extension |-> "sqlite", header |-> <<83, 81, 76, 105, 116, 101, 32, 102, 111, 114, 109, 97, 116, 32, 51, 0>>,
        footer |-> <<>>, max_size |-> 1000 * 1048576],
       [extension |-> "pst", header |-> <<33, 66, 68, 78>>,
        footer |-> <<>>, max_size |-> 2000 * 1048576] >>
NumSignatures == Len(FILE_SIGNATURES)

RECURSIVE DictFrom(_, _)
\* the dict comprehension from entry k on: a key keeps the position of its
\* first insertion and takes the value of its last one
DictFrom(map, k) ==
    IF k > NumSignatures THEN map
    ELSE LET h == FILE_SIGNATURES[k].header
             known == {p \in 1..Len(map) : map[p].header = h}
         IN IF known = {}
            THEN DictFrom(Append(map, [header |-> h, signature |-> k]), k + 1)
            ELSE DictFrom([p \in 1..Len(map) |->
                              IF p \in known THEN [map[p] EXCEPT !.signature = k]
                              ELSE map[p]], k + 1)

\* self.signature_map, in iteration order
signature_map == DictFrom(<<>>, 1)

\* b[lo:hi]
Slice(b, lo, hi) == SubSeq(b, lo + 1, Min(hi, Len(b)))

\* b.find(pat, start)
Find(b, pat, start) ==
    LET hits == {j \in start..(Len(b) - Len(pat)) : Slice(b, j, j + Len(pat)) = pat}
    IN IF hits = {} THEN 0 - 1
       ELSE CHOOSE j \in hits : \A h \in hits : j <= h

Min3(a, b, c) == Min(a, Min(b, c))

\* _extract_file_from_signature; the md5-derived name is left out
ExtractFileFromSignature(c, chunk_offset, file_offset, k) ==
    LET signature == FILE_SIGNATURES[k]
        footer_pos == Find(c, signature.footer, chunk_offset)
        size == IF signature.footer # <<>>
                THEN IF footer_pos # 0 - 1
                     THEN footer_pos - chunk_offset + Len(signature.footer)
                     ELSE Min(signature.max_size, Len(c) - chunk_offset)
                ELSE Min3(signature.max_size, Len(c) - chunk_offset, 1024 * 1024)
    IN [path |-> file_offset, size |-> size, signature |-> k,
        file_type |-> signature.extension, quality |-> 700, recoverable |-> TRUE]

RECURSIVE MatchesAt(_, _, _, _)
\* the inner loop over signature_map.items() at offset j, from item p on
MatchesAt(c, base, j, p) ==
    IF p > Len(signature_map) THEN <<>>
    ELSE LET header == signature_map[p].header
         IN (IF Slice(c, j, j + Len(header)) = header
             THEN <<ExtractFileFromSignature(c, j, base + j, signature_map[p].signature)>>
             ELSE <<>>) \o MatchesAt(c, base, j, p + 1)

RECURSIVE FindFrom(_, _, _)
\* the outer loop "for i in range(len(chunk) - 10)", from j on
FindFrom(c, base, j) ==
    IF j >= Len(c) - 10 THEN <<>>
    ELSE MatchesAt(c, base, j, 1) \o FindFrom(c, base, j + 1)

\* _find_signatures_in_chunk
FindSignaturesInChunk(c, base) == FindFrom(c, base, 0)

\* _identify_file_signature on a file that starts with the bytes c
IdentifyFileSignature(c) ==
    LET header == Slice(c, 0, 32)
        hits == {k \in 1..NumSignatures :
                    /\ Len(header) >= Len(FILE_SIGNATURES[k].header)
                    /\ StartsWith(header, FILE_SIGNATURES[k].header)}
    IN IF hits = {} THEN 0
       ELSE CHOOSE k \in hits : \A h \in hits : k <= h

\* filler of the model's chunks: twelve bytes 'A'
Pad == [k \in 1..12 |-> 65]

\* what may follow a header in a chunk of the model: filler, the byte D9, and
\* the footer of the entry the header belongs to
BodyPieces(k) ==
    {Pad, <<217>>} \cup
        (IF FILE_SIGNATURES[k].footer = <<>> THEN {} ELSE {FILE_SIGNATURES[k].footer})

RECURSIVE BodiesOf(_, _)
BodiesOf(k, n) ==
    IF n = 0 THEN {<<>>}
    ELSE {t \o r : t \in BodyPieces(k), r \in BodiesOf(k, n - 1)}

\* the chunks of the model: some entry's header, with or without filler in
\* front of it, followed by up to MaxBody pieces
Chunks ==
    UNION {{pre \o FILE_SIGNATURES[k].header \o body :
                pre \in {<<>>, Pad},
                body \in UNION {BodiesOf(k, n) : n \in 0..MaxBody}} :
           k \in 1..NumSignatures}

InitSig ==
    /\ chunk \in Chunks
    /\ offset \in {0, 4096}
    /\ found_files = <<>>
    /\ identified = 0
    /\ sig_done = {}
    /\ OtherIdle
    /\ ScanOff
    /\ ParIdle
    /\ ScoreIdle
    /\ WalkIdle
    /\ RecoverIdle

\* one call of _find_signatures_in_chunk(chunk, offset)
FindSignatures ==
    /\ "find" \notin sig_done
    /\ "off" \notin sig_done
    /\ found_files' = FindSignaturesInChunk(chunk, offset)
    /\ sig_done' = sig_done \cup {"find"}
    /\ UNCHANGED <<otherVars, scanOnly, progress_calls, parVars, scoreVars, walkVars, recVars,
                   chunk, offset,
                   identified>>

\* one call of _identify_file_signature on a file with these bytes
IdentifySignature ==
    /\ "identify" \notin sig_done
    /\ "off" \notin sig_done
    /\ identified' = IdentifyFileSignature(chunk)
    /\ sig_done' = sig_done \cup {"identify"}
    /\ UNCHANGED <<otherVars, scanOnly, progress_calls, parVars, scoreVars, walkVars, recVars,
                   chunk, offset,
                   found_files>>

NextSig ==
    \/ FindSignatures
    \/ IdentifySignature

SpecSig == InitSig /\ [][NextSig]_vars

\* the header of entry k occurs in the chunk at offset j, whole
HeaderAt(k, j) ==
    /\ j + Len(FILE_SIGNATURES[k].header) <= Len(chunk)
    /\ Slice(chunk, j, j + Len(FILE_SIGNATURES[k].header)) = FILE_SIGNATURES[k].header

\* the matches the chunk scan emitted for offset j of the chunk
MatchesFor(j) == {n \in 1..Len(found_files) : found_files[n].path = offset + j}

\* C12: a buffer that starts with the header of a catalog entry resolves to
\* that entry or to an earlier-declared entry with the identical header, never
\* to a later-declared one, in the file-header lookup and in the chunk scan.
C12_FirstDeclaredWins ==
    \A k \in 1..NumSignatures :
        StartsWith(chunk, FILE_SIGNATURES[k].header) =>
            /\ "identify" \in sig_done =>
                   /\ identified \in 1..k
                   /\ FILE_SIGNATURES[identified].header = FILE_SIGNATURES[k].header
            /\ "find" \in sig_done =>
                   \A n \in MatchesFor(0) :
                       FILE_SIGNATURES[found_files[n].signature].header
                             = FILE_SIGNATURES[k].header
                           => found_files[n].signature <= k

\* C13: for every offset of the chunk at which the whole header of some
\* catalog entry occurs, the chunk scan emits a match whose recorded source
\* offset is the chunk's offset plus that offset.
C13_ScanExhaustive ==
    "find" \in sig_done =>
        \A j \in 0..Len(chunk) : \A k \in 1..NumSignatures :
            HeaderAt(k, j) => MatchesFor(j) # {}

\* the footer of entry k occurs behind its header that starts at offset j
FooterAfter(k, j) ==
    Find(chunk, FILE_SIGNATURES[k].footer, j + Len(FILE_SIGNATURES[k].header)) # 0 - 1

\* the offset just past the first footer of entry k behind its header at j
FooterEnd(k, j) ==
    Find(chunk, FILE_SIGNATURES[k].footer, j + Len(FILE_SIGNATURES[k].header))
        + Len(FILE_SIGNATURES[k].footer)

\* C14: for a catalog entry with a footer whose header occurs at offset j and
\* whose footer occurs behind that header, the size of the match emitted for
\* that header at j is the distance from j to the end of the first footer
\* behind the header.
C14_ExtentToFirstFooter ==
    "find" \in sig_done =>
        \A k \in 1..NumSignatures : \A j \in 0..Len(chunk) :
            (/\ FILE_SIGNATURES[k].footer # <<>>
             /\ HeaderAt(k, j)
             /\ FooterAfter(k, j)) =>
                \A n \in MatchesFor(j) :
                    FILE_SIGNATURES[found_files[n].signature].header
                          = FILE_SIGNATURES[k].header
                        => found_files[n].size = FooterEnd(k, j) - j

----
\* Directory walks (advanced_recovery.py): _scan_directory_optimized and
\* _scan_directory_with_signatures.
\* A tree is the list of its directories in the order os.walk yields them
\* (top-down, a directory before its subdirectories), each with its depth
\* below the walk's root and its files in listing order, kept as runs of n
\* consecutive files of one size; a size of -1 is a file whose stat() raises
\* OSError.  The returned list is kept as runs too.

\* most directories of a tree of the model
MaxDirs == 5
\* files of a crowded directory of the model
ManyFiles == 60

\* max_depth = 3, "if current_depth >= 2"
MaxDepthOf(kind) == IF kind = "optimized" THEN 3 ELSE 2

\* "if len(files) >= 100", "if len(files) >= 50"
CapOf(kind) == IF kind = "optimized" THEN 100 ELSE SigWalkCap

\* the size filter of each walk
InBand(kind, size) ==
    IF kind = "optimized" THEN size > 0 /\ size < 100 * 1024 * 1024
    ELSE size > 1024 /\ size < 50 * 1024 * 1024

\* root.count(os.sep): the walk's root is mountpoint / name, so its string has
\* directory_seps separators, and os.walk joins one more per level
RootSeps(t, n) == t.directory_seps + t.dirs[n].depth

\* current_depth = root.count(os.sep) - str(directory).count(os.sep)
CurrentDepth(t, n) == RootSeps(t, n) - t.directory_seps

\* variant of Pruned: descends one level further
PrunedLate(current_depth, max_depth) == current_depth > max_depth

\* "if current_depth >= max_depth: dirs[:] = []"
Pruned(current_depth, max_depth) == current_depth >= max_depth

RECURSIVE FilesFrom(_, _, _, _, _)
\* the loop over filenames of directory n from run j on; the result says
\* whether the walk returned from inside the loop.  Of a run of wanted files
\* the loop appends one file at a time and returns at the first that brings
\* len(files) to the cap, so it appends min(n, cap - len(files)) of them.
FilesFrom(kind, t, n, j, files) ==
    IF j > Len(t.dirs[n].listing) THEN [files |-> files, returned |-> FALSE]
    ELSE LET run == t.dirs[n].listing[j]
             take == Min(run.n, CapOf(kind) - TotalCount(files))
             added == Append(files, [dir |-> n, run |-> j, size |-> run.size,
                                     n |-> take])
         IN IF run.size = 0 - 1 \/ ~InBand(kind, run.size)
            THEN FilesFrom(kind, t, n, j + 1, files)
            ELSE IF TotalCount(added) >= CapOf(kind)
                 THEN [files |-> added, returned |-> TRUE]
                 ELSE FilesFrom(kind, t, n, j + 1, added)

RECURSIVE WalkFrom(_, _, _, _, _)
\* os.walk from directory n on; below is the depth of the pruned directory
\* whose subtree is being passed over (-1 when there is none)
WalkFrom(kind, t, n, below, files) ==
    IF n > Len(t.dirs) THEN files
    ELSE IF below # 0 - 1 /\ t.dirs[n].depth > below
         THEN WalkFrom(kind, t, n + 1, below, files)
         ELSE LET r == FilesFrom(kind, t, n, 1, files)
              IN IF r.returned THEN r.files
                 ELSE WalkFrom(kind, t, n + 1,
                               IF Pruned(CurrentDepth(t, n), MaxDepthOf(kind))
                               THEN t.dirs[n].depth ELSE 0 - 1,
                               r.files)

\* the list either walk returns for the tree
ScanDirectory(kind, t) == WalkFrom(kind, t, 1, 0 - 1, <<>>)

\* the directory listings of the model: empty, one file of each sort, crowded
Listings ==
    { <<>>,
      <<[size |-> 0, n |-> 1], [size |-> 2000, n |-> 1], [size |-> 0 - 1, n |-> 1],
        [size |-> 1024, n |-> 1], [size |-> 100 * 1024 * 1024, n |-> 1]>>,
      <<[size |-> 2000, n |-> ManyFiles]>> }

\* depth lists of top-down walks: the root, then every directory at most one
\* level below the one before it
DepthLists(n) ==
    {d \in [1..n -> 0..(n - 1)] :
        /\ d[1] = 0
        /\ \A k \in 2..n : d[k] >= 1 /\ d[k] <= d[k - 1] + 1}

\* the tree with these depths and listings under a root whose path string
\* has s separators
TreeOf(s, d, l) ==
    [directory_seps |-> s,
     dirs |-> [k \in DOMAIN d |-> [depth |-> d[k], listing |-> l[k]]]]

InitWalk ==
    /\ \E n \in 1..MaxDirs : \E s \in {1, 2} :
           \E d \in DepthLists(n) : \E l \in [1..n -> Listings] :
               tree = TreeOf(s, d, l)
    /\ walk_kind = "none"
    /\ walk_files = <<>>
    /\ OtherIdle
    /\ ScanOff
    /\ ParIdle
    /\ ScoreIdle
    /\ SigIdle
    /\ RecoverIdle

\* _scan_directory_optimized(directory)
ScanDirectoryOptimized ==
    /\ walk_kind = "none"
    /\ walk_kind' = "optimized"
    /\ walk_files' = ScanDirectory("optimized", tree)
    /\ UNCHANGED <<otherVars, scanOnly, progress_calls, parVars, scoreVars, sigVars, recVars,
                   tree>>

\* _scan_directory_with_signatures(directory)
ScanDirectoryWithSignatures ==
    /\ walk_kind = "none"
    /\ walk_kind' = "signatures"
    /\ walk_files' = ScanDirectory("signatures", tree)
    /\ UNCHANGED <<otherVars, scanOnly, progress_calls, parVars, scoreVars, sigVars, recVars,
                   tree>>

NextWalk ==
    \/ ScanDirectoryOptimized
    \/ ScanDirectoryWithSignatures

SpecWalk == InitWalk /\ [][NextWalk]_vars

\* C15: the list a walk returns holds no entry of a directory deeper than the
\* walk's max_depth below its root (3, or 2 for the signature-assisted walk)
\* and no more entries than the walk's cap (100, or 50).
C15_WalkBounded ==
    walk_kind \in {"optimized", "signatures"} =>
        /\ \A e \in Range(walk_files) :
               tree.dirs[e.dir].depth <= MaxDepthOf(walk_kind)
        /\ TotalCount(walk_files) <= CapOf(walk_kind)

\* a walk that passed over a directory below the depth limit holding wanted
\* files, went on to a later directory, and stopped there at its cap
C15_Witness ==
    /\ walk_kind \in {"optimized", "signatures"}
    /\ TotalCount(walk_files) = CapOf(walk_kind)
    /\ \E n \in 1..Len(tree.dirs) :
           /\ tree.dirs[n].depth > MaxDepthOf(walk_kind)
           /\ \E j \in 1..Len(tree.dirs[n].listing) :
                  InBand(walk_kind, tree.dirs[n].listing[j].size)
           /\ \E e \in Range(walk_files) : e.dir > n

----
\* Recovery: AdvancedRecoveryEngine.recover_file called by FileRecoveryThread.run
\* (advanced_recovery.py, recovery_wizard.py), and FileRecoveryEngine.restore_file
\* called by restore_selected_files (file_recovery.py, app.py).
\* File contents and the text of names are sequences of bytes.  A file name is
\* [stem, rec, suffix]: the name stem + "_recovered_<n>" for each n of rec +
\* suffix, so that Path.stem is stem with the rec part and Path.suffix is suffix.
\* The destination directory is the set of its files, [name, content] each.

\* most files selected for one batch
MaxSelected == 3

\* "Placeholder for recovered file: "
PlaceholderPrefix ==
    <<80, 108, 97, 99, 101, 104, 111, 108, 100, 101, 114, 32, 102, 111, 114, 32,
      114, 101, 99, 111, 118, 101, 114, 101, 100, 32, 102, 105, 108, 101, 58, 32>>

\* "_recovered_"
RecoveredInfix == <<95, 114, 101, 99, 111, 118, 101, 114, 101, 100, 95>>

RECURSIVE Digits(_)
\* str(n)
Digits(n) == IF n < 10 THEN <<48 + n>> ELSE Digits(n \div 10) \o <<48 + (n % 10)>>

RECURSIVE RecText(_)
RecText(rec) ==
    IF rec = <<>> THEN <<>>
    ELSE RecoveredInfix \o Digits(Head(rec)) \o RecText(Tail(rec))

\* the characters of a file name
NameText(name) == name.stem \o RecText(name.rec) \o name.suffix

\* f"{stem}_recovered_{counter}{suffix}"
Renamed(name, counter) == [name EXCEPT !.rec = Append(@, counter)]

\* the names of the model: a.txt, a_recovered_1.txt, empty.txt, b.txt, p.pdf,
\* recently_deleted_in_docs.unknown, recently_deleted_in_pics.unknown
NameATxt == [stem |-> <<97>>, rec |-> <<>>, suffix |-> <<46, 116, 120, 116>>]
NameARecoveredTxt == Renamed(NameATxt, 1)
NameEmptyTxt ==
    [stem |-> <<101, 109, 112, 116, 121>>, rec |-> <<>>, suffix |-> <<46, 116, 120, 116>>]
NameBTxt == [stem |-> <<98>>, rec |-> <<>>, suffix |-> <<46, 116, 120, 116>>]
NamePPdf == [stem |-> <<112>>, rec |-> <<>>, suffix |-> <<46, 112, 100, 102>>]
NameRecentDocs ==
    [stem |-> <<114, 101, 99, 101, 110, 116, 108, 121, 95, 100, 101, 108, 101, 116,
                101, 100, 95, 105, 110, 95, 100, 111, 99, 115>>,
     rec |-> <<>>, suffix |-> <<46, 117, 110, 107, 110, 111, 119, 110>>]
NameRecentPics ==
    [stem |-> <<114, 101, 99, 101, 110, 116, 108, 121, 95, 100, 101, 108, 101, 116,
                101, 100, 95, 105, 110, 95, 112, 105, 99, 115>>,
     rec |-> <<>>, suffix |-> <<46, 117, 110, 107, 110, 111, 119, 110>>]

\* a PDF of 1028 bytes, inside the size band of the signature-assisted walk
PdfContent == <<37, 80, 68, 70, 45, 49, 46, 52>> \o [k \in 1..1020 |-> 65]

SourcePaths ==
    {"docs/a.txt", "pics/a.txt", "docs/a_recovered_1.txt", "tmp/empty.txt",
     "gone/b.txt", "docs/p.pdf", "docs/recently_deleted_file",
     "pics/recently_deleted_file"}

\* the source files when the batch runs: since the scan, tmp/empty.txt was
\* truncated and gone/b.txt deleted; docs holds a file named
\* recently_deleted_file, pics does not
SourceFS ==
    [p \in SourcePaths |->
        CASE p = "docs/a.txt" -> [exists |-> TRUE, content |-> <<104, 105>>]
          [] p = "pics/a.txt" -> [exists |-> TRUE, content |-> <<33>>]
          [] p = "docs/a_recovered_1.txt" -> [exists |-> TRUE, content |-> <<49>>]
          [] p = "tmp/empty.txt" -> [exists |-> TRUE, content |-> <<>>]
          [] p = "docs/p.pdf" -> [exists |-> TRUE, content |-> PdfContent]
          [] p = "docs/recently_deleted_file" -> [exists |-> TRUE, content |-> <<63>>]
          [] OTHER -> [exists |-> FALSE, content |-> <<>>]]

\* an entry of _scan_directory_optimized: no signature, recoverable
WalkEntry(name, path) ==
    [name |-> name, path |-> path, signature |-> 0, recoverable |-> TRUE]

\* an entry of _scan_directory_with_signatures: the signature identified from
\* the file's first bytes
SignatureWalkEntry(name, path) ==
    [name |-> name, path |-> path,
     signature |-> IdentifyFileSignature(SourceFS[path].content),
     recoverable |-> TRUE]

\* an entry of _scan_recent_operations: the path is the recently modified
\* directory / "recently_deleted_file"
RecentOperationsEntry(name, path) ==
    [name |-> name, path |-> path, signature |-> 0, recoverable |-> FALSE]

\* the scan results a batch of the model is selected from
Candidates ==
    { WalkEntry(NameATxt, "docs/a.txt"),
      WalkEntry(NameATxt, "pics/a.txt"),
      WalkEntry(NameARecoveredTxt, "docs/a_recovered_1.txt"),
      WalkEntry(NameEmptyTxt, "tmp/empty.txt"),
      WalkEntry(NameBTxt, "gone/b.txt"),
      SignatureWalkEntry(NamePPdf, "docs/p.pdf"),
      RecentOperationsEntry(NameRecentDocs, "docs/recently_deleted_file"),
      RecentOperationsEntry(NameRecentPics, "pics/recently_deleted_file") }

\* the destination directory before the batch: fresh, or holding an a.txt
DestChoices == { {}, {[name |-> NameATxt, content |-> <<111, 108, 100>>]} }

\* path.exists(), read and write of a file of directory d
Exists(d, name) == \E f \in d : f.name = name
ContentOf(d, name) == (CHOOSE f \in d : f.name = name).content
WriteFile(d, name, c) ==
    {f \in d : f.name # name} \cup {[name |-> name, content |-> c]}

\* what one call did: its result, the directory after it, the file it wrote
\* (none: <<>>), whether it read the source's content
Outcome(result, d, wrote, read) ==
    [result |-> result, dir |-> d, wrote |-> wrote, read |-> read]

\* recover_file(file_info, output_path) with _recover_raw_file; io_ok says
\* whether the write succeeds
RecoverFile(file_info, d, io_ok) ==
    LET output_file == file_info.name
        source == SourceFS[file_info.path]
    IN IF file_info.signature # 0
       THEN IF io_ok
            THEN Outcome("true",
                         WriteFile(d, output_file,
                                   PlaceholderPrefix \o NameText(file_info.name)),
                         <<output_file>>, FALSE)
            ELSE Outcome("false", d, <<>>, FALSE)
       ELSE IF source.exists /\ io_ok
            THEN Outcome("true", WriteFile(d, output_file, source.content),
                         <<output_file>>, TRUE)
            ELSE Outcome("false", d, <<>>, FALSE)

RECURSIVE FreeName(_, _, _)
\* the "while dest_path.exists()" loop from counter on
FreeName(d, original_dest, counter) ==
    IF Exists(d, Renamed(original_dest, counter))
    THEN FreeName(d, original_dest, counter + 1)
    ELSE Renamed(original_dest, counter)

\* dest_path after "Handle name conflicts"
DestPath(d, name) == IF Exists(d, name) THEN FreeName(d, name, 1) ELSE name

\* restore_file(file_info, destination_dir); io_ok says whether copy2 succeeds
RestoreFile(file_info, d, io_ok) ==
    LET source == SourceFS[file_info.path]
        dest_path == DestPath(d, file_info.name)
        copied == WriteFile(d, dest_path, source.content)
    IN IF ~source.exists THEN Outcome("false", d, <<>>, FALSE)
       ELSE IF ~io_ok THEN Outcome("raise", d, <<>>, FALSE)
       ELSE IF Exists(copied, dest_path) /\ Len(ContentOf(copied, dest_path)) > 0
            THEN Outcome("true", copied, <<dest_path>>, TRUE)
            ELSE Outcome("false", copied, <<dest_path>>, TRUE)

NoCall == [index |-> 0, result |-> "none", wrote |-> <<>>, read |-> FALSE,
           before |-> {}]

\* the record of the call for file number k of the batch
CallRecord(k, r) ==
    [index |-> k, result |-> r.result, wrote |-> r.wrote, read |-> r.read,
     before |-> dest_dir]

InitRecover ==
    /\ recovery_engine \in {"advanced", "basic"}
    /\ \E n \in 1..MaxSelected : \E f \in [1..n -> Candidates] : selected_files = f
    /\ dest_dir \in DestChoices
    /\ recovery_i = 0
    /\ successful = 0
    /\ failed = 0
    /\ recovery_should_stop = FALSE
    /\ recovery_pc = "start"
    /\ last_call = NoCall
    /\ OtherIdle
    /\ ScanOff
    /\ ParIdle
    /\ ScoreIdle
    /\ SigIdle
    /\ WalkIdle

\* FileRecoveryThread.run up to the loop: the output directory is made
RunStart ==
    /\ recovery_engine = "advanced"
    /\ recovery_pc = "start"
    /\ recovery_pc' = "loop"
    /\ UNCHANGED <<otherVars, scanOnly, progress_calls, parVars, scoreVars, sigVars, walkVars,
                   recovery_engine, selected_files, dest_dir, recovery_i,
                   successful, failed, recovery_should_stop, last_call>>

\* output_dir.mkdir raises: the outer except emits error_occurred
RunMkdirError ==
    /\ recovery_engine = "advanced"
    /\ recovery_pc = "start"
    /\ recovery_pc' = "error"
    /\ UNCHANGED <<otherVars, scanOnly, progress_calls, parVars, scoreVars, sigVars, walkVars,
                   recovery_engine, selected_files, dest_dir, recovery_i,
                   successful, failed, recovery_should_stop, last_call>>

\* the top of an iteration with _should_stop clear: the progress report and
\* the half second of sleep that come before the call of recover_file
RunLoopTest ==
    /\ recovery_engine = "advanced"
    /\ recovery_pc = "loop"
    /\ recovery_i < Len(selected_files)
    /\ ~recovery_should_stop
    /\ recovery_pc' = "call"
    /\ UNCHANGED <<otherVars, scanOnly, progress_calls, parVars, scoreVars, sigVars, walkVars,
                   recovery_engine, selected_files, dest_dir, recovery_i,
                   successful, failed, recovery_should_stop, last_call>>

\* variant of RecoverNext: a file that fails ends the loop
RecoverNextAbort ==
    /\ recovery_engine = "advanced"
    /\ recovery_pc = "call"
    /\ \E io_ok \in BOOLEAN :
         LET r == RecoverFile(selected_files[recovery_i + 1], dest_dir, io_ok)
         IN /\ dest_dir' = r.dir
            /\ successful' = IF r.result = "true" THEN successful + 1 ELSE successful
            /\ failed' = IF r.result = "true" THEN failed ELSE failed + 1
            /\ recovery_pc' = IF r.result = "true" THEN "loop" ELSE "done"
            /\ last_call' = CallRecord(recovery_i + 1, r)
    /\ recovery_i' = recovery_i + 1
    /\ UNCHANGED <<otherVars, scanOnly, progress_calls, parVars, scoreVars, sigVars, walkVars,
                   recovery_engine, selected_files, recovery_should_stop>>

\* the rest of the iteration: the call of recover_file for the file the test
\* was passed for, and the counting of its result
RecoverNext ==
    /\ recovery_engine = "advanced"
    /\ recovery_pc = "call"
    /\ \E io_ok \in BOOLEAN :
         LET r == RecoverFile(selected_files[recovery_i + 1], dest_dir, io_ok)
         IN /\ dest_dir' = r.dir
            /\ successful' = IF r.result = "true" THEN successful + 1 ELSE successful
            /\ failed' = IF r.result = "true" THEN failed ELSE failed + 1
            /\ last_call' = CallRecord(recovery_i + 1, r)
    /\ recovery_i' = recovery_i + 1
    /\ recovery_pc' = "loop"
    /\ UNCHANGED <<otherVars, scanOnly, progress_calls, parVars, scoreVars, sigVars, walkVars,
                   recovery_engine, selected_files, recovery_should_stop>>

\* "if self._should_stop: break", then the "Complete" report
RunStopBreak ==
    /\ recovery_engine = "advanced"
    /\ recovery_pc = "loop"
    /\ recovery_i < Len(selected_files)
    /\ recovery_should_stop
    /\ recovery_pc' = "done"
    /\ UNCHANGED <<otherVars, scanOnly, progress_calls, parVars, scoreVars, sigVars, walkVars,
                   recovery_engine, selected_files, dest_dir, recovery_i,
                   successful, failed, recovery_should_stop, last_call>>

\* the loop is exhausted: recovery_completed.emit(successful, failed)
RunLoopEnd ==
    /\ recovery_engine = "advanced"
    /\ recovery_pc = "loop"
    /\ recovery_i = Len(selected_files)
    /\ recovery_pc' = "done"
    /\ UNCHANGED <<otherVars, scanOnly, progress_calls, parVars, scoreVars, sigVars, walkVars,
                   recovery_engine, selected_files, dest_dir, recovery_i,
                   successful, failed, recovery_should_stop, last_call>>

\* FileRecoveryThread.stop, from the dialog's cancel button or closeEvent
RecoveryStop ==
    /\ recovery_engine = "advanced"
    /\ recovery_pc \in {"start", "loop", "call"}
    /\ ~recovery_should_stop
    /\ recovery_should_stop' = TRUE
    /\ UNCHANGED <<otherVars, scanOnly, progress_calls, parVars, scoreVars, sigVars, walkVars,
                   recovery_engine, selected_files, dest_dir, recovery_i,
                   successful, failed, recovery_pc, last_call>>

\* restore_selected_files up to its loop: files are selected, a directory chosen
RestoreStart ==
    /\ recovery_engine = "basic"
    /\ recovery_pc = "start"
    /\ recovery_pc' = "loop"
    /\ UNCHANGED <<otherVars, scanOnly, progress_calls, parVars, scoreVars, sigVars, walkVars,
                   recovery_engine, selected_files, dest_dir, recovery_i,
                   successful, failed, recovery_should_stop, last_call>>

\* one iteration of the loop of restore_selected_files: restored_count is
\* successful; an exception is shown in a dialog and the loop goes on
RestoreNext ==
    /\ recovery_engine = "basic"
    /\ recovery_pc = "loop"
    /\ recovery_i < Len(selected_files)
    /\ \E io_ok \in BOOLEAN :
         LET r == RestoreFile(selected_files[recovery_i + 1], dest_dir, io_ok)
         IN /\ dest_dir' = r.dir
            /\ successful' = IF r.result = "true" THEN successful + 1 ELSE successful
            /\ last_call' = CallRecord(recovery_i + 1, r)
    /\ recovery_i' = recovery_i + 1
    /\ UNCHANGED <<otherVars, scanOnly, progress_calls, parVars, scoreVars, sigVars, walkVars,
                   recovery_engine, selected_files, failed, recovery_should_stop,
                   recovery_pc>>

\* the loop is exhausted: the closing dialog is shown
RestoreLoopEnd ==
    /\ recovery_engine = "basic"
    /\ recovery_pc = "loop"
    /\ recovery_i = Len(selected_files)
    /\ recovery_pc' = "done"
    /\ UNCHANGED <<otherVars, scanOnly, progress_calls, parVars, scoreVars, sigVars, walkVars,
                   recovery_engine, selected_files, dest_dir, recovery_i,
                   successful, failed, recovery_should_stop, last_call>>

NextRecover ==
    \/ RunStart
    \/ RunMkdirError
    \/ RunLoopTest
    \/ RecoverNext
    \/ RunStopBreak
    \/ RunLoopEnd
    \/ RecoveryStop
    \/ RestoreStart
    \/ RestoreNext
    \/ RestoreLoopEnd

SpecRecover == InitRecover /\ [][NextRecover]_vars

\* the file the latest call was made for
LastFile == selected_files[last_call.index]

\* a call has been made, by the engine e
CalledBy(e) == recovery_engine = e /\ last_call.index >= 1

\* C16: recover_file on an entry whose recoverable flag is false fails and
\* does nothing to the filesystem: it reads nothing from the source and leaves
\* the destination directory as it was.
C16_NotRecoverableUntouched ==
    (CalledBy("advanced") /\ ~LastFile.recoverable) =>
        /\ last_call.result = "false"
        /\ ~last_call.read
        /\ dest_dir = last_call.before

\* C17: a call that recovers a file whose source path exists leaves every file
\* already in the destination directory present and unchanged, and on a name
\* collision writes under stem_recovered_<n><ext> with the smallest free n >= 1.
C17_NeverOverwrites ==
    [][(/\ recovery_i' = recovery_i + 1
        /\ SourceFS[selected_files[recovery_i + 1].path].exists) =>
           /\ \A f \in dest_dir : f \in dest_dir'
           /\ (last_call'.wrote # <<>>
                 /\ Exists(dest_dir, selected_files[recovery_i + 1].name)) =>
                  last_call'.wrote
                      = <<FreeName(dest_dir, selected_files[recovery_i + 1].name, 1)>>
      ]_vars

\* C18: when a call reports success, the file it wrote is in the destination
\* directory and is not empty.
C18_SuccessMeansNonEmptyFile ==
    (last_call.index >= 1 /\ last_call.result = "true") =>
        /\ last_call.wrote # <<>>
        /\ Exists(dest_dir, last_call.wrote[1])
        /\ Len(ContentOf(dest_dir, last_call.wrote[1])) > 0

\* C19: recovering an entry whose source path exists into a fresh, empty
\* directory leaves there one file, with the content (and so the size) of the
\* source.
C19_RoundTrip ==
    (/\ last_call.index >= 1
     /\ last_call.before = {}
     /\ last_call.result = "true"
     /\ SourceFS[LastFile.path].exists) =>
        /\ Cardinality(dest_dir) = 1
        /\ \A f \in dest_dir : f.content = SourceFS[LastFile.path].content

\* C20 (as stated): at the end of a batch every selected file was attempted,
\* and successful + failed of FileRecoveryThread is the number of selected files.
C20_AllAttemptedAndCounted ==
    recovery_pc = "done" =>
        /\ recovery_i = Len(selected_files)
        /\ recovery_engine = "advanced" => successful + failed = Len(selected_files)

\* C20 (amended): a failed file never ends the batch: unless stop() was called,
\* every selected file is attempted.  FileRecoveryThread reports successful +
\* failed equal to the number of files it attempted; restore_selected_files
\* counts the restored files only and attempts every selected file.
C20_FailureNeverAborts ==
    recovery_pc = "done" =>
        /\ ~recovery_should_stop => recovery_i = Len(selected_files)
        /\ recovery_engine = "advanced" => successful + failed = recovery_i
        /\ recovery_engine = "basic" =>
               (failed = 0 /\ successful <= recovery_i)

\* a finished batch, not stopped, in which a file failed and a later one was
\* recovered
C20_Witness ==
    /\ recovery_pc = "done"
    /\ recovery_engine = "advanced"
    /\ ~recovery_should_stop
    /\ failed >= 1
    /\ last_call.result = "true"
    /\ recovery_i = Len(selected_files)

\* C30: after FileRecoveryThread.stop() no call of recover_file begins: every
\* call begins with _should_stop clear.
C30_NoCallAfterStop ==
    [][(recovery_engine = "advanced" /\ recovery_i' = recovery_i + 1)
          => ~recovery_should_stop]_vars

----
\* Construction of the scanner (accelerated_scanner.py):
\* AcceleratedFileScanner.__init__.

\* most cores of a machine of the model ("1 <= cpu_count <= 64")
MaxCores == 64

\* the variables of every other component
initOthers == <<scanOnly, progress_calls, parVars, scoreVars, sigVars,
                walkVars, recVars, batchVars, filterVars, windowVars,
                folderVars, longVars, wizardVars>>

\* a machine, before its scanner is constructed
InitConstruct ==
    /\ machine_cores \in 1..MaxCores
    /\ opencl_available \in BOOLEAN
    /\ init_gpu_ok \in BOOLEAN
    /\ scanner = [cpu_count |-> 0, use_gpu |-> FALSE, max_threads |-> 0]
    /\ init_pc = "new"
    /\ ScanOff
    /\ ParIdle
    /\ ScoreIdle
    /\ SigIdle
    /\ WalkIdle
    /\ RecoverIdle
    /\ WizardIdle
    /\ LongIdle
    /\ FolderIdle
    /\ WindowIdle
    /\ FilterIdle
    /\ BatchIdle

\* AcceleratedFileScanner()
ScannerInit ==
    /\ init_pc = "new"
    /\ scanner' = [cpu_count |-> machine_cores,
                   use_gpu |-> opencl_available /\ init_gpu_ok,
                   max_threads |-> MaxThreads(machine_cores)]
    /\ init_pc' = "ready"
    /\ UNCHANGED <<initOthers, machine_cores, opencl_available, init_gpu_ok>>

NextConstruct == ScannerInit

SpecConstruct == InitConstruct /\ [][NextConstruct]_vars

----
\* Scoring of one entry: further properties.

\* the name ends with a valuable extension
HasValuableExtension(name) ==
    \E ext \in ValuableExtensions : EndsWith(Lower(name), ext)

\* the name is that of a system or cache file
IsSystemName(name) ==
    StartsWith(name, <<".">>) \/ Contains(Lower(name), <<"c", "a", "c", "h", "e">>)

\* C26: a system or cache file without a valuable extension is listed with a
\* score strictly below the base score 0.5, whatever its age.
C26_SystemFileBelowBase ==
    (/\ score_pc = "listed"
     /\ IsSystemName(filename)
     /\ ~HasValuableExtension(filename)) => file_score < 500

----
\* A batch of directory entries (accelerated_scanner.py): _process_file_batch.
\* An entry is its name, the age of its modification time in seconds, and
\* whether entry.stat() succeeds.

\* most entries of a batch of the model
MaxBatch == 2

\* the variables of every other component
batchOthers == <<scanOnly, progress_calls, parVars, scoreVars, sigVars,
                 walkVars, recVars, initVars, filterVars, windowVars,
                 folderVars, longVars, wizardVars>>

NamePdf == <<"a", ".", "p", "d", "f">>
NameTxt == <<"b", ".", "t", "x", "t">>
NameDotCache == <<".", "c", "a", "c", "h", "e">>
NameTmp == <<"a", ".", "t", "m", "p">>
NamePlain == <<"a">>

BatchNames == {NamePdf, NameTxt, NameDotCache, NameTmp, NamePlain}

\* thirty seconds, an hour, two days, forty days
BatchAges == {30, 3600, 2 * SecondsPerDay, 40 * SecondsPerDay}

BatchEntries ==
    {[name |-> n, age |-> a, stat_ok |-> TRUE] : n \in BatchNames, a \in BatchAges}
        \cup {[name |-> NamePlain, age |-> 30, stat_ok |-> FALSE]}

\* is_temp_file
IsTempFile(name) ==
    \/ StartsWith(name, <<".">>)
    \/ EndsWith(name, <<".", "t", "m", "p">>)
    \/ EndsWith(name, <<"~">>)
    \/ Contains(name, <<".", "s", "w", "p">>)
    \/ StartsWith(name, <<"~", "$">>)

\* file_info of one entry ('modified' is kept as the age it stands for)
FileInfo(entry) ==
    [name |-> entry.name,
     age |-> entry.age,
     type |-> IF IsTempFile(entry.name) THEN "temp_file" ELSE "regular_file",
     score |-> CalculateRecoveryScore(entry.name, entry.age)]

RECURSIVE ProcessEntries(_, _)
\* the loop of _process_file_batch: an entry whose stat() raises is skipped
ProcessEntries(entries, files) ==
    IF entries = <<>> THEN files
    ELSE ProcessEntries(Tail(entries),
                        IF Head(entries).stat_ok
                        THEN Append(files, FileInfo(Head(entries)))
                        ELSE files)

InitBatch ==
    /\ \E n \in 1..MaxBatch : \E b \in [1..n -> BatchEntries] : file_entries = b
    /\ batch_files = <<>>
    /\ batch_pc = "entries"
    /\ ScanOff
    /\ ParIdle
    /\ ScoreIdle
    /\ SigIdle
    /\ WalkIdle
    /\ RecoverIdle
    /\ WizardIdle
    /\ LongIdle
    /\ FolderIdle
    /\ WindowIdle
    /\ FilterIdle
    /\ ConstructIdle

\* _process_file_batch(file_entries)
ProcessBatch ==
    /\ batch_pc = "entries"
    /\ batch_files' = ProcessEntries(file_entries, <<>>)
    /\ batch_pc' = "listed"
    /\ UNCHANGED <<batchOthers, file_entries>>

NextBatch == ProcessBatch

SpecBatch == InitBatch /\ [][NextBatch]_vars

\* C25: of two listed files with valuable extensions and no system or cache
\* name, the one modified more recently has the strictly higher score.
C25_MoreRecentScoresHigher ==
    batch_pc = "listed" =>
        \A j, k \in 1..Len(batch_files) :
            (/\ HasValuableExtension(batch_files[j].name)
             /\ HasValuableExtension(batch_files[k].name)
             /\ ~IsSystemName(batch_files[j].name)
             /\ ~IsSystemName(batch_files[k].name)
             /\ batch_files[j].age < batch_files[k].age) =>
                batch_files[j].score > batch_files[k].score

----
\* The re-ranking pass called on a list (accelerated_scanner.py):
\* _gpu_filter_files(files).  The list is kept as runs of n consecutive files
\* of one score.

\* most runs of a list of the model
MaxFilterRuns == 3

\* the variables of every other component
filterOthers == <<scanOnly, progress_calls, parVars, scoreVars, sigVars,
                  walkVars, recVars, initVars, batchVars, windowVars,
                  folderVars, longVars, wizardVars>>

\* single files of three scores, and long runs that bring a list to the
\* length the pass looks for
FilterRuns ==
    { [score |-> 300, n |-> 1], [score |-> 800, n |-> 1], [score |-> 100, n |-> 1],
      [score |-> 300, n |-> BigDir], [score |-> 950, n |-> BigDir] }

InitFilter ==
    /\ \E n \in 0..MaxFilterRuns : \E f \in [1..n -> FilterRuns] : filter_files = f
    /\ filter_use_gpu \in BOOLEAN
    /\ kernel_ok \in BOOLEAN
    /\ filter_result = <<>>
    /\ filter_pc = "called"
    /\ ScanOff
    /\ ParIdle
    /\ ScoreIdle
    /\ SigIdle
    /\ WalkIdle
    /\ RecoverIdle
    /\ WizardIdle
    /\ LongIdle
    /\ FolderIdle
    /\ WindowIdle
    /\ ConstructIdle
    /\ BatchIdle

\* "if not self.use_gpu or len(files) < 1000: return files"
FilterSkipped == ~filter_use_gpu \/ TotalCount(filter_files) < GpuThreshold

\* the list is returned as it was given
FilterReturnAsGiven ==
    /\ filter_pc = "called"
    /\ FilterSkipped
    /\ filter_result' = filter_files
    /\ filter_pc' = "returned"
    /\ UNCHANGED <<filterOthers, filter_files, filter_use_gpu, kernel_ok>>

\* the kernel runs: boosted scores, sorted descending
FilterKernel ==
    /\ filter_pc = "called"
    /\ ~FilterSkipped
    /\ kernel_ok
    /\ filter_result' = SortDesc(Boosted(filter_files))
    /\ filter_pc' = "returned"
    /\ UNCHANGED <<filterOthers, filter_files, filter_use_gpu, kernel_ok>>

\* the kernel raises: "Fallback to CPU sorting"
FilterFallback ==
    /\ filter_pc = "called"
    /\ ~FilterSkipped
    /\ ~kernel_ok
    /\ filter_result' = SortDesc(filter_files)
    /\ filter_pc' = "returned"
    /\ UNCHANGED <<filterOthers, filter_files, filter_use_gpu, kernel_ok>>

NextFilter ==
    \/ FilterReturnAsGiven
    \/ FilterKernel
    \/ FilterFallback

SpecFilter == InitFilter /\ [][NextFilter]_vars

\* the list is in descending order of score
SortedDescending(files) ==
    \A k \in 1..(Len(files) - 1) : files[k].score >= files[k + 1].score

\* the two lists hold the same files
SameFiles(a, b) ==
    /\ Len(a) = Len(b)
    /\ \A r \in Range(a) \cup Range(b) :
           Cardinality({k \in 1..Len(a) : a[k] = r})
               = Cardinality({k \in 1..Len(b) : b[k] = r})

\* C24: with use_gpu true and the kernel failing, the list returned is the
\* given files in descending order of score, whatever the length of the list.
C24_FallbackSortsDescending ==
    (filter_pc = "returned" /\ filter_use_gpu /\ ~kernel_ok) =>
        /\ SortedDescending(filter_result)
        /\ SameFiles(filter_result, filter_files)

----
\* Main window (app.py): start_scan, start_folder_scan, the scan threads
\* FileRecoveryThread and AcceleratedScanThread, and the slots on_files_found
\* and on_scan_finished.  The threads' signals reach the window through the
\* event queue of the main thread, in the order they were emitted.  A press of
\* a button reaches its slot only while the button is enabled.

\* most scan threads started in a run of the model
MaxScans == 3

\* the variables of every other component
windowOthers == <<scanOnly, progress_calls, parVars, scoreVars, sigVars,
                  walkVars, recVars, initVars, batchVars, filterVars,
                  folderVars, longVars, wizardVars>>

\* the lists a scan may find
FoundChoices == {<<>>, <<"a">>, <<"a", "b">>}

\* thread.isRunning(): run() has not returned
IsRunning(k) == threads[k].phase # "returned"

\* the threads whose run() has not returned
RunningThreads == {k \in 1..Len(threads) : IsRunning(k)}

\* variant of ScanInProgress: the check is left out
ScanInProgressUnchecked == FALSE

\* "self.recovery_thread and self.recovery_thread.isRunning()"
ScanInProgress == recovery_thread # 0 /\ IsRunning(recovery_thread)

\* OopsieDaisyMainWindow.__init__ and setup_ui
InitWindow ==
    /\ threads = <<>>
    /\ recovery_thread = 0
    /\ event_queue = <<>>
    /\ window_found_files = <<>>
    /\ files_list = <<>>
    /\ scan_button = TRUE
    /\ folder_scan_button = TRUE
    /\ restore_button = FALSE
    /\ progress_bar = [visible |-> FALSE, value |-> 0]
    /\ status_label = "ready"
    /\ dialogs_opened = 0
    /\ last_slot = "none"
    /\ ScanOff
    /\ ParIdle
    /\ ScoreIdle
    /\ SigIdle
    /\ WalkIdle
    /\ RecoverIdle
    /\ WizardIdle
    /\ LongIdle
    /\ FolderIdle
    /\ ConstructIdle
    /\ BatchIdle
    /\ FilterIdle

\* the statements of start_scan / start_folder_scan after their checks
BeginScan(kind, status) ==
    /\ progress_bar' = [visible |-> TRUE, value |-> 0]
    /\ status_label' = status
    /\ scan_button' = FALSE
    /\ folder_scan_button' = FALSE
    /\ files_list' = <<>>
    /\ threads' = Append(threads, [kind |-> kind, phase |-> "scanning"])
    /\ recovery_thread' = Len(threads) + 1

\* start_scan, a scan thread is running: return
StartScanRefused ==
    /\ scan_button
    /\ ScanInProgress
    /\ last_slot' = "start_scan"
    /\ UNCHANGED <<windowOthers, threads, recovery_thread, event_queue,
                   window_found_files, files_list, scan_button,
                   folder_scan_button, restore_button, progress_bar,
                   status_label, dialogs_opened>>

\* start_scan
StartScan ==
    /\ scan_button
    /\ ~ScanInProgress
    /\ Len(threads) < MaxScans
    /\ BeginScan("recovery", "Scanning in progress")
    /\ last_slot' = "start_scan"
    /\ UNCHANGED <<windowOthers, event_queue, window_found_files, restore_button,
                   dialogs_opened>>

\* start_folder_scan, a scan thread is running: return before the dialog
StartFolderScanRefused ==
    /\ folder_scan_button
    /\ ScanInProgress
    /\ last_slot' = "start_folder_scan"
    /\ UNCHANGED <<windowOthers, threads, recovery_thread, event_queue,
                   window_found_files, files_list, scan_button,
                   folder_scan_button, restore_button, progress_bar,
                   status_label, dialogs_opened>>

\* start_folder_scan, the dialog is dismissed: "if not folder_path: return"
FolderDialogDismissed ==
    /\ folder_scan_button
    /\ ~ScanInProgress
    /\ Len(threads) < MaxScans
    /\ dialogs_opened < MaxScans
    /\ dialogs_opened' = dialogs_opened + 1
    /\ last_slot' = "start_folder_scan"
    /\ UNCHANGED <<windowOthers, threads, recovery_thread, event_queue,
                   window_found_files, files_list, scan_button,
                   folder_scan_button, restore_button, progress_bar,
                   status_label>>

\* start_folder_scan, a folder is chosen
StartFolderScan ==
    /\ folder_scan_button
    /\ ~ScanInProgress
    /\ Len(threads) < MaxScans
    /\ dialogs_opened < MaxScans
    /\ dialogs_opened' = dialogs_opened + 1
    /\ BeginScan("accelerated", "Deep folder scan in progress")
    /\ last_slot' = "start_folder_scan"
    /\ UNCHANGED <<windowOthers, event_queue, window_found_files, restore_button>>

\* a step of thread k that emits a signal
ThreadStep(k, from, to, signals) ==
    /\ k \in 1..Len(threads)
    /\ threads[k].phase = from
    /\ threads' = [threads EXCEPT ![k].phase = to]
    /\ event_queue' = event_queue \o signals
    /\ UNCHANGED <<windowOthers, recovery_thread, window_found_files, files_list,
                   scan_button, folder_scan_button, restore_button,
                   progress_bar, status_label, dialogs_opened, last_slot>>

\* AcceleratedScanThread.run: progress_callback emits progress_updated
ThreadEmitProgress ==
    \E k \in 1..Len(threads) :
        /\ threads[k].kind = "accelerated"
        /\ ThreadStep(k, "scanning", "progressed",
                      <<[signal |-> "progress_updated", files |-> <<>>, value |-> 100]>>)

\* run: files_found.emit(deleted_files); the accelerated thread emits the
\* empty list when its scan raised
ThreadEmitFilesFound ==
    \E k \in 1..Len(threads) : \E f \in FoundChoices :
        ThreadStep(k, IF threads[k].kind = "accelerated" THEN "progressed"
                      ELSE "scanning",
                   "emitted",
                   <<[signal |-> "files_found", files |-> f, value |-> 0]>>)

\* run: finished.emit()
ThreadEmitFinished ==
    \E k \in 1..Len(threads) :
        ThreadStep(k, "emitted", "finishing",
                   <<[signal |-> "finished", files |-> <<>>, value |-> 0]>>)

\* run returns
ThreadReturn ==
    \E k \in 1..Len(threads) : ThreadStep(k, "finishing", "returned", <<>>)

\* FileRecoveryThread.run: scan_for_deleted_files raises, nothing is emitted
ThreadScanRaises ==
    \E k \in 1..Len(threads) :
        /\ threads[k].kind = "recovery"
        /\ ThreadStep(k, "scanning", "returned", <<>>)

\* progress_bar.setValue, connected to progress_updated
OnProgressUpdated ==
    /\ event_queue # <<>>
    /\ Head(event_queue).signal = "progress_updated"
    /\ event_queue' = Tail(event_queue)
    /\ progress_bar' = [progress_bar EXCEPT !.value = Head(event_queue).value]
    /\ UNCHANGED <<windowOthers, threads, recovery_thread, window_found_files,
                   files_list, scan_button, folder_scan_button, restore_button,
                   status_label, dialogs_opened, last_slot>>

\* on_files_found(files)
OnFilesFound ==
    /\ event_queue # <<>>
    /\ Head(event_queue).signal = "files_found"
    /\ event_queue' = Tail(event_queue)
    /\ window_found_files' = Head(event_queue).files
    /\ files_list' = Head(event_queue).files
    /\ last_slot' = "on_files_found"
    /\ UNCHANGED <<windowOthers, threads, recovery_thread, scan_button,
                   folder_scan_button, restore_button, progress_bar,
                   status_label, dialogs_opened>>

\* on_scan_finished()
OnScanFinished ==
    /\ event_queue # <<>>
    /\ Head(event_queue).signal = "finished"
    /\ event_queue' = Tail(event_queue)
    /\ progress_bar' = [progress_bar EXCEPT !.visible = FALSE]
    /\ scan_button' = TRUE
    /\ folder_scan_button' = TRUE
    /\ IF window_found_files # <<>>
       THEN /\ status_label' = "Select files to restore"
            /\ restore_button' = TRUE
       ELSE /\ status_label' = "No deleted files found in scanned locations"
            /\ UNCHANGED restore_button
    /\ last_slot' = "on_scan_finished"
    /\ UNCHANGED <<windowOthers, threads, recovery_thread, window_found_files,
                   files_list, dialogs_opened>>

NextWindow ==
    \/ StartScanRefused
    \/ StartScan
    \/ StartFolderScanRefused
    \/ FolderDialogDismissed
    \/ StartFolderScan
    \/ ThreadEmitProgress
    \/ ThreadEmitFilesFound
    \/ ThreadEmitFinished
    \/ ThreadReturn
    \/ ThreadScanRaises
    \/ OnProgressUpdated
    \/ OnFilesFound
    \/ OnScanFinished

SpecWindow == InitWindow /\ [][NextWindow]_vars

\* C21: at most one scan thread is running at any time, and while the
\* window's scan thread is running no press starts a thread or opens the
\* folder dialog.
C21_OneScanAtATime ==
    /\ [](Cardinality(RunningThreads) <= 1)
    /\ [][ScanInProgress =>
             (Len(threads') = Len(threads) /\ dialogs_opened' = dialogs_opened)]_vars

\* a press of a scan button that found a scan thread still running, after an
\* earlier scan had run to its end
C21_Witness ==
    /\ last_slot \in {"start_scan", "start_folder_scan"}
    /\ ScanInProgress
    /\ Len(threads) >= 2
    /\ Cardinality(RunningThreads) = 1

\* C22: when a scan has finished having found no files, the Restore button is
\* not enabled and the file list is empty.
C22_NoFilesNoRestore ==
    (last_slot = "on_scan_finished" /\ window_found_files = <<>>) =>
        (~restore_button /\ files_list = <<>>)

----
\* Deep scan of a folder (accelerated_scanner.py): scan_folder_deep.
\* A tree is the list of its directories in the order os.walk yields them
\* (top-down, a directory before its subdirectories), each with its depth
\* below the scanned folder and the kind of its name: "plain", "hidden" (the
\* name starts with '.') or "trash" ('.Trash' or '.local').  Every directory
\* holds one file, so the lists stay below the length at which
\* scan_locations_parallel re-ranks them.

\* most directories of a bushy tree of the model
MaxFolderDirs == 4

\* the variables of every other component
folderOthers == <<scanOnly, progress_calls, parVars, scoreVars, sigVars,
                  walkVars, recVars, initVars, batchVars, filterVars,
                  windowVars, longVars, wizardVars>>

\* "if depth < 5"
FolderDepthLimit == 5

NameKinds == {"plain", "hidden", "trash"}

\* the directory that holds directory k (0 for the scanned folder itself)
ParentOf(t, k) ==
    IF t[k].depth = 0 THEN 0
    ELSE CHOOSE j \in 1..(k - 1) :
             /\ t[j].depth = t[k].depth - 1
             /\ \A m \in (j + 1)..(k - 1) : t[m].depth >= t[k].depth

\* the subdirectories of directory k, in listing order
ChildrenOf(t, k) == SelectSeq([m \in 1..Len(t) |-> m], LAMBDA m : ParentOf(t, m) = k)

\* "if not dir_name.startswith('.') or dir_name in ['.Trash', '.local']"
Wanted(kind) == kind # "hidden"

RECURSIVE LocationsFrom(_, _, _)
\* the loop over os.walk from directory k on: the wanted subdirectories of
\* every directory less than five levels down are appended
LocationsFrom(t, k, locs) ==
    IF k > Len(t) THEN locs
    ELSE LocationsFrom(t, k + 1,
             IF t[k].depth < FolderDepthLimit
             THEN locs \o SelectSeq(ChildrenOf(t, k), LAMBDA m : Wanted(t[m].kind))
             ELSE locs)

\* all_locations: the folder itself, then what the walk appends
AllLocations(t) == LocationsFrom(t, 1, <<1>>)

RECURSIVE FilesOfLocations(_, _)
\* what scan_locations_parallel returns: the files _scan_location_optimized
\* lists in each location, but for a location whose scan timed out
FilesOfLocations(locs, slow) ==
    IF locs = <<>> THEN <<>>
    ELSE (IF Head(locs) = slow THEN <<>> ELSE <<[dir |-> Head(locs)]>>)
             \o FilesOfLocations(Tail(locs), slow)

\* the tree with these depths and kinds of names (the folder itself is plain)
FolderTreeOf(d, kinds) ==
    [k \in DOMAIN d |-> [depth |-> d[k],
                         kind |-> IF k = 1 THEN "plain" ELSE kinds[k]]]

\* a chain of directories, one inside the other, two levels past the limit
ChainDepths == [k \in 1..(FolderDepthLimit + 2) |-> k - 1]

InitFolder ==
    /\ \/ \E n \in 1..MaxFolderDirs : \E d \in DepthLists(n) :
              \E kinds \in [1..n -> NameKinds] :
                  folder_tree = FolderTreeOf(d, kinds)
       \/ \E j \in 1..(FolderDepthLimit + 2) : \E kind \in NameKinds :
              folder_tree = FolderTreeOf(ChainDepths,
                                [k \in 1..(FolderDepthLimit + 2) |->
                                    IF k = j THEN kind ELSE "plain"])
    /\ slow_location \in 0..2
    /\ all_locations = <<>>
    /\ folder_result = <<>>
    /\ folder_pc = "called"
    /\ ScanOff
    /\ ParIdle
    /\ ScoreIdle
    /\ SigIdle
    /\ WalkIdle
    /\ RecoverIdle
    /\ WizardIdle
    /\ LongIdle
    /\ ConstructIdle
    /\ BatchIdle
    /\ FilterIdle
    /\ WindowIdle

\* scan_folder_deep(folder_path)
ScanFolderDeep ==
    /\ folder_pc = "called"
    /\ all_locations' = AllLocations(folder_tree)
    /\ folder_result' = FilesOfLocations(AllLocations(folder_tree), slow_location)
    /\ folder_pc' = "returned"
    /\ UNCHANGED <<folderOthers, folder_tree, slow_location>>

NextFolder == ScanFolderDeep

SpecFolder == InitFolder /\ [][NextFolder]_vars

RECURSIVE BeneathHidden(_, _)
\* directory k is a hidden subdirectory of the scanned folder, or lies
\* anywhere beneath one
BeneathHidden(t, k) ==
    IF t[k].depth = 0 THEN FALSE
    ELSE t[k].kind = "hidden" \/ BeneathHidden(t, ParentOf(t, k))

\* C29: the result holds no file of a directory that is, or lies beneath, a
\* hidden subdirectory of the scanned folder.
C29_HiddenSkippedEntirely ==
    folder_pc = "returned" =>
        \A f \in Range(folder_result) : ~BeneathHidden(folder_tree, f.dir)

----
\* Signature scan of a long chunk (advanced_recovery.py):
\* _find_signatures_in_chunk on a chunk with a long run of filler in it.
\* Such a chunk is kept as its bytes before the run (head), the length of
\* the run (gap) and its bytes after the run (tail).  The filler byte occurs
\* in no header and no footer of the catalog, so no match starts or lies in
\* the run, and the scan is followed over the offsets of head and tail only.

\* most pieces the tail of a long chunk of the model is made of
MaxTailPieces == 2

\* the variables of every other component
longOthers == <<scanOnly, progress_calls, parVars, scoreVars, sigVars,
                walkVars, recVars, initVars, batchVars, filterVars,
                windowVars, folderVars, wizardVars>>

\* the filler byte, 'X'
Filler == 88

\* no header and no footer of the catalog holds the filler byte
FillerFree ==
    \A k \in 1..NumSignatures :
        /\ Filler \notin Range(FILE_SIGNATURES[k].header)
        /\ Filler \notin Range(FILE_SIGNATURES[k].footer)

\* lengths of the run: none, short, and past the max_size of the entries
\* that have a footer (50 MB, 200 MB, 500 MB)
GapChoices == {0, 100, 51 * 1048576, 201 * 1048576, 501 * 1048576}

\* len(chunk)
LongLen(c) == Len(c.head) + c.gap + Len(c.tail)

\* chunk[p]
LongByte(c, p) ==
    IF p < Len(c.head) THEN c.head[p + 1]
    ELSE IF p < Len(c.head) + c.gap THEN Filler
    ELSE c.tail[p - Len(c.head) - c.gap + 1]

\* chunk[lo:hi], for the short slices compared with headers and footers
LongSlice(c, lo, hi) ==
    [q \in 1..(Min(hi, LongLen(c)) - lo) |-> LongByte(c, lo + q - 1)]

\* the offsets of the bytes of head and tail
OutsideRun(c) ==
    (0..(Len(c.head) - 1)) \cup ((Len(c.head) + c.gap)..(LongLen(c) - 1))

\* chunk.find(pat, start)
LongFind(c, pat, start) ==
    LET hits == {j \in OutsideRun(c) :
                    /\ j >= start
                    /\ j <= LongLen(c) - Len(pat)
                    /\ LongSlice(c, j, j + Len(pat)) = pat}
    IN IF hits = {} THEN 0 - 1
       ELSE CHOOSE j \in hits : \A h \in hits : j <= h

\* _extract_file_from_signature; the md5-derived name is left out
ExtractFileFromLong(c, chunk_offset, file_offset, k) ==
    LET signature == FILE_SIGNATURES[k]
        footer_pos == LongFind(c, signature.footer, chunk_offset)
        size == IF signature.footer # <<>>
                THEN IF footer_pos # 0 - 1
                     THEN footer_pos - chunk_offset + Len(signature.footer)
                     ELSE Min(signature.max_size, LongLen(c) - chunk_offset)
                ELSE Min3(signature.max_size, LongLen(c) - chunk_offset, 1024 * 1024)
    IN [path |-> file_offset, size |-> size, signature |-> k,
        file_type |-> signature.extension, quality |-> 700, recoverable |-> TRUE]

RECURSIVE LongMatchesAt(_, _, _, _)
\* the inner loop over signature_map.items() at offset j, from item p on
LongMatchesAt(c, base, j, p) ==
    IF p > Len(signature_map) THEN <<>>
    ELSE LET header == signature_map[p].header
         IN (IF LongSlice(c, j, j + Len(header)) = header
             THEN <<ExtractFileFromLong(c, j, base + j, signature_map[p].signature)>>
             ELSE <<>>) \o LongMatchesAt(c, base, j, p + 1)

RECURSIVE LongFindFrom(_, _, _)
\* the outer loop "for i in range(len(chunk) - 10)", from j on, passing over
\* the run
LongFindFrom(c, base, j) ==
    IF j >= LongLen(c) - 10 THEN <<>>
    ELSE IF j \notin OutsideRun(c) THEN LongFindFrom(c, base, Len(c.head) + c.gap)
    ELSE LongMatchesAt(c, base, j, 1) \o LongFindFrom(c, base, j + 1)

\* _find_signatures_in_chunk
FindSignaturesInLong(c, base) == LongFindFrom(c, base, 0)

\* what may stand in the tail: a few filler bytes, the byte D9, and the
\* footer of the entry the header belongs to
TailPieces(k) ==
    {[q \in 1..11 |-> Filler], <<217>>} \cup
        (IF FILE_SIGNATURES[k].footer = <<>> THEN {} ELSE {FILE_SIGNATURES[k].footer})

RECURSIVE TailsOf(_, _)
TailsOf(k, n) ==
    IF n = 0 THEN {<<>>}
    ELSE {t \o r : t \in TailPieces(k), r \in TailsOf(k, n - 1)}

InitLong ==
    /\ FillerFree
    /\ \E k \in 1..NumSignatures : \E pre \in {<<>>, <<Filler, Filler>>} :
           \E g \in GapChoices : \E n \in 0..MaxTailPieces : \E t \in TailsOf(k, n) :
               long_chunk = [head |-> pre \o FILE_SIGNATURES[k].header,
                             gap |-> g, tail |-> t]
    /\ long_offset \in {0, 4096}
    /\ long_found = <<>>
    /\ long_pc = "called"
    /\ ScanOff
    /\ ParIdle
    /\ ScoreIdle
    /\ SigIdle
    /\ WalkIdle
    /\ RecoverIdle
    /\ WizardIdle
    /\ ConstructIdle
    /\ BatchIdle
    /\ FilterIdle
    /\ WindowIdle
    /\ FolderIdle

\* one call of _find_signatures_in_chunk(chunk, offset)
FindSignaturesLong ==
    /\ long_pc = "called"
    /\ long_found' = FindSignaturesInLong(long_chunk, long_offset)
    /\ long_pc' = "returned"
    /\ UNCHANGED <<longOthers, long_chunk, long_offset>>

NextLong == FindSignaturesLong

SpecLong == InitLong /\ [][NextLong]_vars

\* C28: every record emitted for a header at chunk index i has
\* 0 < size <= min(signature.max_size, len(chunk) - i).
C28_ExtentWithinBounds ==
    long_pc = "returned" =>
        \A f \in Range(long_found) :
            /\ 0 < f.size
            /\ f.size <= FILE_SIGNATURES[f.signature].max_size
            /\ f.size <= LongLen(long_chunk) - (f.path - long_offset)

----
\* Recovery wizard (recovery_wizard.py): RecoveryWizard with its scan thread
\* RecoveryWizardThread.  The slots of the wizard run on the main thread, one
\* at a time; cancel_scan blocks the main thread in wait() until run() has
\* returned.  The thread's signals reach the slots through the event queue of
\* the main thread.  The scan itself (engine.scan_drive) is one step here: it
\* returns, or raises, at any time.

\* most scans started in a run of the model
MaxWizardScans == 2

\* the variables of every other component
wizardOthers == <<scanOnly, progress_calls, parVars, scoreVars, sigVars,
                  walkVars, recVars, initVars, batchVars, filterVars,
                  windowVars, folderVars, longVars>>

\* recovery_thread.isRunning(): run() has not returned
WizardRunning == wizard_thread # 0 /\ wizard_threads[wizard_thread].phase # "finished"

\* RecoveryWizard.__init__
InitWizard ==
    /\ wizard_threads = <<>>
    /\ wizard_thread = 0
    /\ engine_cancel = FALSE
    /\ wizard_queue = <<>>
    /\ current_step = 0
    /\ wizard_main = "idle"
    /\ scanning_shown = FALSE
    /\ results_shown = 0
    /\ cancelled_scans = {}
    /\ late_completions = 0
    /\ ScanOff
    /\ ParIdle
    /\ ScoreIdle
    /\ SigIdle
    /\ WalkIdle
    /\ RecoverIdle
    /\ ConstructIdle
    /\ BatchIdle
    /\ FilterIdle
    /\ WindowIdle
    /\ FolderIdle
    /\ LongIdle

\* go_next on the drive page, and on the results page ("New Scan")
GoNextPage ==
    /\ wizard_main = "idle"
    /\ current_step \in {0, 3}
    /\ current_step' = IF current_step = 0 THEN 1 ELSE 0
    /\ UNCHANGED <<wizardOthers, wizard_threads, wizard_thread, engine_cancel,
                   wizard_queue, wizard_main, scanning_shown, results_shown,
                   cancelled_scans, late_completions>>

\* go_next on the scan mode page: start_scan(), then the scanning page
GoNextStartScan ==
    /\ wizard_main = "idle"
    /\ current_step = 1
    /\ Len(wizard_threads) < MaxWizardScans
    /\ scanning_shown' = TRUE
    /\ wizard_threads' = Append(wizard_threads,
                                [phase |-> "scanning", should_stop |-> FALSE,
                                 progressed |-> FALSE])
    /\ wizard_thread' = Len(wizard_threads) + 1
    /\ current_step' = 2
    /\ UNCHANGED <<wizardOthers, engine_cancel, wizard_queue, wizard_main,
                   results_shown, cancelled_scans, late_completions>>

\* go_back (the button is disabled on the scanning page)
GoBack ==
    /\ wizard_main = "idle"
    /\ current_step \in {1, 3}
    /\ current_step' = current_step - 1
    /\ UNCHANGED <<wizardOthers, wizard_threads, wizard_thread, engine_cancel,
                   wizard_queue, wizard_main, scanning_shown, results_shown,
                   cancelled_scans, late_completions>>

\* the end of cancel_scan: stop_scan(), current_step = 1
CancelReturns ==
    /\ scanning_shown' = FALSE
    /\ current_step' = 1
    /\ wizard_main' = "idle"
    /\ cancelled_scans' = cancelled_scans \cup {wizard_thread}

\* cancel_scan, the thread is not running
CancelScanNotRunning ==
    /\ wizard_main = "idle"
    /\ current_step = 2
    /\ ~WizardRunning
    /\ CancelReturns
    /\ UNCHANGED <<wizardOthers, wizard_threads, wizard_thread, engine_cancel,
                   wizard_queue, results_shown, late_completions>>

\* cancel_scan, the thread is running: isRunning() was true
CancelScanRunning ==
    /\ wizard_main = "idle"
    /\ current_step = 2
    /\ WizardRunning
    /\ wizard_main' = "stop"
    /\ UNCHANGED <<wizardOthers, wizard_threads, wizard_thread, engine_cancel,
                   wizard_queue, current_step, scanning_shown, results_shown,
                   cancelled_scans, late_completions>>

\* cancel_scan: recovery_thread.stop()
CancelScanStop ==
    /\ wizard_main = "stop"
    /\ wizard_threads' = [wizard_threads EXCEPT ![wizard_thread].should_stop = TRUE]
    /\ engine_cancel' = TRUE
    /\ wizard_main' = "wait"
    /\ UNCHANGED <<wizardOthers, wizard_thread, wizard_queue, current_step,
                   scanning_shown, results_shown, cancelled_scans,
                   late_completions>>

\* cancel_scan: recovery_thread.wait() returns once run() has returned
CancelScanWait ==
    /\ wizard_main = "wait"
    /\ ~WizardRunning
    /\ CancelReturns
    /\ UNCHANGED <<wizardOthers, wizard_threads, wizard_thread, engine_cancel,
                   wizard_queue, results_shown, late_completions>>

\* the slot progress_widget.update_progress, for a queued progress_updated
OnWizardProgress ==
    /\ wizard_main = "idle"
    /\ wizard_queue # <<>>
    /\ Head(wizard_queue).signal = "progress_updated"
    /\ wizard_queue' = Tail(wizard_queue)
    /\ UNCHANGED <<wizardOthers, wizard_threads, wizard_thread, engine_cancel,
                   current_step, wizard_main, scanning_shown, results_shown,
                   cancelled_scans, late_completions>>

\* on_scan_completed, the slot of files_found: the results page
OnWizardScanCompleted ==
    /\ wizard_main = "idle"
    /\ wizard_queue # <<>>
    /\ Head(wizard_queue).signal = "files_found"
    /\ wizard_queue' = Tail(wizard_queue)
    /\ scanning_shown' = FALSE
    /\ results_shown' = Head(wizard_queue).scan
    /\ current_step' = 3
    /\ late_completions' = IF Head(wizard_queue).scan \in cancelled_scans
                           THEN late_completions + 1 ELSE late_completions
    /\ UNCHANGED <<wizardOthers, wizard_threads, wizard_thread, engine_cancel,
                   wizard_main, cancelled_scans>>

\* on_scan_error, the slot of error_occurred: back to the scan mode page
OnWizardScanError ==
    /\ wizard_main = "idle"
    /\ wizard_queue # <<>>
    /\ Head(wizard_queue).signal = "error_occurred"
    /\ wizard_queue' = Tail(wizard_queue)
    /\ scanning_shown' = FALSE
    /\ current_step' = 1
    /\ UNCHANGED <<wizardOthers, wizard_threads, wizard_thread, engine_cancel,
                   wizard_main, results_shown, cancelled_scans,
                   late_completions>>

\* run: progress_callback during scan_drive, emits unless _should_stop
WizardThreadProgress ==
    \E k \in 1..Len(wizard_threads) :
        /\ wizard_threads[k].phase = "scanning"
        /\ ~wizard_threads[k].progressed
        /\ wizard_threads' = [wizard_threads EXCEPT ![k].progressed = TRUE]
        /\ wizard_queue' = IF wizard_threads[k].should_stop THEN wizard_queue
                           ELSE Append(wizard_queue,
                                       [signal |-> "progress_updated", scan |-> k])
        /\ UNCHANGED <<wizardOthers, wizard_thread, engine_cancel, current_step,
                       wizard_main, scanning_shown, results_shown,
                       cancelled_scans, late_completions>>

\* run: engine.scan_drive returns its list
WizardThreadScanReturns ==
    \E k \in 1..Len(wizard_threads) :
        /\ wizard_threads[k].phase = "scanning"
        /\ wizard_threads' = [wizard_threads EXCEPT ![k].phase = "scanned"]
        /\ UNCHANGED <<wizardOthers, wizard_thread, engine_cancel, wizard_queue,
                       current_step, wizard_main, scanning_shown, results_shown,
                       cancelled_scans, late_completions>>

\* run: scan_drive raises, error_occurred is emitted and run returns
WizardThreadScanRaises ==
    \E k \in 1..Len(wizard_threads) :
        /\ wizard_threads[k].phase = "scanning"
        /\ wizard_threads' = [wizard_threads EXCEPT ![k].phase = "finished"]
        /\ wizard_queue' = Append(wizard_queue,
                                  [signal |-> "error_occurred", scan |-> k])
        /\ UNCHANGED <<wizardOthers, wizard_thread, engine_cancel, current_step,
                       wizard_main, scanning_shown, results_shown,
                       cancelled_scans, late_completions>>

\* run: the test `if not self._should_stop`
WizardThreadCheckStop ==
    \E k \in 1..Len(wizard_threads) :
        /\ wizard_threads[k].phase = "scanned"
        /\ wizard_threads' = [wizard_threads EXCEPT ![k].phase =
                                 IF wizard_threads[k].should_stop
                                 THEN "finished" ELSE "emitting"]
        /\ UNCHANGED <<wizardOthers, wizard_thread, engine_cancel, wizard_queue,
                       current_step, wizard_main, scanning_shown, results_shown,
                       cancelled_scans, late_completions>>

\* run: files_found.emit(recovered_files); scan_completed.emit() has no slot;
\* run returns
WizardThreadEmitFilesFound ==
    \E k \in 1..Len(wizard_threads) :
        /\ wizard_threads[k].phase = "emitting"
        /\ wizard_threads' = [wizard_threads EXCEPT ![k].phase = "finished"]
        /\ wizard_queue' = Append(wizard_queue,
                                  [signal |-> "files_found", scan |-> k])
        /\ UNCHANGED <<wizardOthers, wizard_thread, engine_cancel, current_step,
                       wizard_main, scanning_shown, results_shown,
                       cancelled_scans, late_completions>>

NextWizard ==
    \/ GoNextPage
    \/ GoNextStartScan
    \/ GoBack
    \/ CancelScanNotRunning
    \/ CancelScanRunning
    \/ CancelScanStop
    \/ CancelScanWait
    \/ OnWizardProgress
    \/ OnWizardScanCompleted
    \/ OnWizardScanError
    \/ WizardThreadProgress
    \/ WizardThreadScanReturns
    \/ WizardThreadScanRaises
    \/ WizardThreadCheckStop
    \/ WizardThreadEmitFilesFound

SpecWizard == InitWizard /\ [][NextWizard]_vars

\* C27: once cancel_scan has returned, nothing of the cancelled scan is
\* delivered: on_scan_completed never runs for a scan whose cancel_scan has
\* returned, so that scan never moves the wizard to the results page.
C27_NothingAfterCancel ==
    late_completions = 0

====
